---- MODULE Spec2Model ----
(***************************************************************************)
(* Listing tracker of the crypto-listings bot: CryptoListingBot of         *)
(* src/main.py with the notifier of src/telegram_bot.py and the gathered   *)
(* candidates of src/exchange_monitor.py.                                  *)
(*                                                                         *)
(* Time is in seconds.  One action per stretch of code between two awaits  *)
(* of the polling cycle: the gather with admission and expiry sweep, one   *)
(* 'started' alert (with the blocking sleep that follows it), one step of  *)
(* the threshold sweep, the save, the report, the poll sleep.              *)
(***************************************************************************)
EXTENDS Integers, Sequences, FiniteSets, TLC

VARIABLES
    clock,              \* datetime.now(), seconds since startup
    pc,                 \* position of run()/check_listings()
    upcoming_listings,  \* CryptoListingBot.upcoming_listings (the live set)
    active_alerts,      \* CryptoListingBot.active_alerts (the ledger), a set of keys
    all_listings,       \* check_listings: all_listings of the running cycle
    current_time,       \* check_listings: current_time of the running cycle
    expired_listings,   \* check_listings: expired_listings of the running cycle
    exp_i,              \* check_listings: index of the expired listing being alerted
    rep_i,              \* send_listing_started_alerts: loop variable i
    path,               \* which caller runs send_listing_started_alerts
    sweep_now,          \* check_upcoming_listings: now
    todo,               \* check_upcoming_listings: rest of the copy being iterated
    thr_i,              \* check_upcoming_listings: next index into alert_times
    cycle_error,        \* the except branch of check_listings ran in this cycle
    snapshot,           \* listings_data.json
    last_report_time,   \* run: last_report_time
    departed,           \* history: listings check_upcoming_listings removed in this cycle
    gathers,            \* number of gathers that returned candidates so far
    upcoming_sent,      \* history: 'upcoming' alerts emitted, per ledger key
    ledger_hits,        \* history: ledger keys found already set (line 156) in this cycle
    raised_on,          \* history: the alerts that raised in this cycle
    undelivered,        \* history: ledger keys whose alert was not delivered in this cycle
    feeds,              \* get_all_listings: what each adapter task meets on the network
    results,            \* get_all_listings: results of asyncio.gather
    restored,           \* upcoming_listings of a fresh tracker after load_data
    crashed,            \* history: the listings whose 'started' alerts a crash cut short
    report,             \* send_regular_report: upcoming_sorted of the last report
    content,            \* the title or content an extractor is given
    extracted,          \* what the extractor returned
    started_for,        \* history: the identities 'started' alerts were emitted for, where it is kept
    chat_id,            \* TelegramNotifier.chat_id
    config_chat_id,     \* config.CHAT_ID
    sent_to,            \* history: the chat ids bot.send_message was called with
    returned            \* what the last call of send_message returned or raised

vars == <<clock, pc, upcoming_listings, active_alerts, all_listings,
          current_time, expired_listings, exp_i, rep_i, path, sweep_now, todo, thr_i,
          cycle_error, snapshot, last_report_time, departed, gathers,
          upcoming_sent, ledger_hits, raised_on, undelivered,
          feeds, results, restored,
          crashed,
          report,
          content,
          extracted,
          started_for,
          chat_id,
          config_chat_id,
          sent_to,
          returned>>

\* The variables that the polling cycle, the gather and the store all leave
\* alone, but for the history of 'started' alerts, which admission and
\* send_listing_started_alerts extend.
apart == <<crashed, report, content, extracted, started_for, chat_id, config_chat_id, sent_to, returned>>

\* The variables the polling cycle leaves alone: those of the gather seen from
\* inside, the tracker a restart builds, and the ones above.
aside == <<feeds, results, restored, apart>>

----------------------------------------------------------------------------
(* Bounds of the model. *)

\* The clock stops here: no sleep goes past it.
MaxClock == 3900

\* Listings tracked at a time.
MaxRecords == 3

\* Candidates one gather returns.
MaxCand == 2

\* Gathers over a run that return any candidate.
MaxGathers == 2

\* Adapter tasks of one gather seen from inside (the code starts five).
MaxAdapters == 2

\* Items of the payload one adapter builds listings from.
MaxItems == 2

\* Listings in a live set that is saved and loaded again.
MaxStored == 2

\* Words in a title given to the symbol extraction.
MaxWords == 3

\* Time expressions and other phrases in a text given to the time extractor.
MaxPhrases == 3

\* Listings in a live set that is reported.
MaxReportable == 7

\* Updates waiting at the Bot API.
MaxUpdates == 3

\* Instruments in an answer of the OKX instruments API.
MaxInstruments == 3

\* Seconds a listing is ahead when one threshold sweep looks at it.
MaxLead == 3700

----------------------------------------------------------------------------
(* Program constants. *)

CHECK_INTERVAL == 300
LISTING_ALERT_INTERVAL == 60
LISTING_ALERT_COUNT == 3
POLL_SLEEP == 30
COOLDOWN_SLEEP == 60
REPORT_SIZE == 5

\* The hours from now to datetime.max (the end of year 9999), beyond which
\* datetime.now() + timedelta(...) raises OverflowError: about 7 * 10^7 in
\* this century.
HOURS_TO_MAX == 70000000
ALERT_TOLERANCE == 60

\* exchange_monitor.py, lines 247 and 258: the instruments looked at and the
\* 24 hours in which a listing counts as recent.
RECENT_INSTRUMENTS == 50
RECENT_WINDOW == 86400

\* enhanced_exchange_monitor.py, lines 283 and 288: 20 instruments, 48 hours.
API_INSTRUMENTS == 20
API_WINDOW == 172800

alert_times == <<3600, 1800, 900, 300>>

\* The network time of one gather that returns candidates: none, or one poll
\* period.  A gather that returns nothing is taken to cost no time.
FetchDelays == {0, 30}

\* What one call of the notifier can do: deliver, fail with a TelegramError
\* (send_message returns False), or raise anything else (send_message lets it
\* through).
SendOutcomes == {"ok", "fail", "raise"}

----------------------------------------------------------------------------
(* Listing records. *)

\* Python's None.
None == "None"

Listing(e, s, t, u, st) ==
    [exchange |-> e, symbol |-> s, listing_time |-> t,
     announcement_url |-> u, status |-> st]

\* The candidates the adapters can return in this model.
Candidates ==
    { Listing("MEXC", "ABC", 89, "/a", "upcoming"),
      Listing("OKX", "XYZ", 89, "/b", "upcoming"),
      Listing("OKX", "XYZ", 150, "/c", "upcoming"),
      Listing("OKX", "XYZ", 3750, "/d", "upcoming"),
      Listing("OKX", "XYZ", 3750, "/e", "active") }

RECURSIVE SeqsUpTo(_, _)
SeqsUpTo(S, n) ==
    IF n = 0 THEN { <<>> }
    ELSE LET shorter == SeqsUpTo(S, n - 1)
         IN shorter \cup { Append(q, x) : q \in shorter, x \in S }

\* What the adapters can build at time t: an announcement adapter appends a
\* listing only when its time is ahead (exchange_monitor.py, lines 68, 108,
\* 171, 211, 307); the OKX instruments adapter appends 'active' listings
\* whatever side of now their listTime is on (lines 253-267).
AdapterOutput(t) ==
    { c \in Candidates : c.status = "upcoming" => c.listing_time > t }

\* What get_all_listings can return when the adapters run at time t.
Payloads(t) == SeqsUpTo(AdapterOutput(t), MaxCand)

\* A Listing object in the tracker, admitted at nowv: the record, and as
\* history the number of 'started' alerts emitted for it so far (sent) and the
\* thresholds it was admitted more than a tolerance ahead of (owed).
Tracked(c, nowv) ==
    [exchange |-> c.exchange, symbol |-> c.symbol,
     listing_time |-> c.listing_time,
     announcement_url |-> c.announcement_url, status |-> c.status,
     sent |-> 0,
     owed |-> { alert_times[i] : i \in
                 { j \in 1..Len(alert_times) :
                     c.listing_time - nowv > alert_times[j] + ALERT_TOLERANCE } }]

\* Listing.__eq__ of the dataclass: field by field.
ListingEq(a, b) ==
    /\ a.exchange = b.exchange
    /\ a.symbol = b.symbol
    /\ a.listing_time = b.listing_time
    /\ a.announcement_url = b.announcement_url
    /\ a.status = b.status

\* list.index(x): the first position holding an element equal to x.
IndexOf(seq, x) ==
    CHOOSE i \in 1..Len(seq) :
        /\ ListingEq(seq[i], x)
        /\ \A j \in 1..(i - 1) : ~ListingEq(seq[j], x)

\* list.remove(x): drops the first element equal to x.
Remove(seq, x) ==
    IF \E i \in 1..Len(seq) : ListingEq(seq[i], x)
    THEN LET k == IndexOf(seq, x)
         IN SubSeq(seq, 1, k - 1) \o SubSeq(seq, k + 1, Len(seq))
    ELSE seq

\* Line 155: alert_key.
AlertKey(l, t) == <<l.exchange, l.symbol, t>>

Keys == { <<c.exchange, c.symbol, alert_times[i]>> :
            c \in Candidates, i \in 1..Len(alert_times) }

\* The elements of a sequence.
Range(seq) == { seq[i] : i \in 1..Len(seq) }

----------------------------------------------------------------------------
(* check_listings, lines 87-113: admission and expiry sweep. *)

\* Line 91 without its status test.
IsAdmissible_AnyStatus(c, nowv) == c.listing_time > nowv

\* Line 91: only upcoming listings whose time is still ahead are looked at.
IsAdmissible(c, nowv) ==
    c.status = "upcoming" /\ c.listing_time > nowv

\* Lines 95-96 had they compared the listing time as well.
Existing_ByTriple(live, c) ==
    \E i \in 1..Len(live) :
        /\ live[i].symbol = c.symbol
        /\ live[i].exchange = c.exchange
        /\ live[i].listing_time = c.listing_time

\* Lines 95-96: a tracked listing has the candidate's symbol and exchange.
Existing(live, c) ==
    \E i \in 1..Len(live) :
        live[i].symbol = c.symbol /\ live[i].exchange = c.exchange

\* Lines 87-100: new_upcoming_listings.  Every candidate is compared with
\* self.upcoming_listings as it was before the loop.
NewUpcoming(all, live, nowv) ==
    SelectSeq(all, LAMBDA c : IsAdmissible(c, nowv) /\ ~Existing(live, c))

\* Line 103: extend.
Extend(live, new, nowv) ==
    live \o [i \in 1..Len(new) |-> Tracked(new[i], nowv)]

\* Line 110 had it taken the records that start within the next minute too.
IsExpired_Soon(l, at) == l.listing_time <= at + ALERT_TOLERANCE

\* Line 110.
IsExpired(l, at) == l.listing_time <= at

\* Lines 109-112: expired_listings, in list order.
Expired(live, at) ==
    SelectSeq(live, LAMBDA l : IsExpired(l, at))

\* Line 112, once per expired listing.
RECURSIVE RemoveAll(_, _)
RemoveAll(live, xs) ==
    IF xs = <<>> THEN live
    ELSE RemoveAll(Remove(live, Head(xs)), Tail(xs))

----------------------------------------------------------------------------
(* check_upcoming_listings, lines 142-158. *)

Abs(x) == IF x < 0 THEN -x ELSE x

\* Line 142.
TimeUntil(l, nowv) == l.listing_time - nowv

\* Line 145 had the branch never been taken.
HasStarted_Never(time_until_listing) == FALSE

\* Line 145.
HasStarted(time_until_listing) == time_until_listing <= 0

\* Line 154 had it asked for at most alert_time (and the tolerance) left.
InWindow_UpTo(time_until_listing, alert_time) ==
    time_until_listing < alert_time + ALERT_TOLERANCE

\* Line 154.
InWindow(time_until_listing, alert_time) ==
    Abs(time_until_listing - alert_time) < ALERT_TOLERANCE

\* Line 156.
AlreadyFired(ledger, key) == key \in ledger

\* Line 158 had it left the ledger alone.
MarkFired_Forget(ledger, key) == ledger

\* Line 158.
MarkFired(ledger, key) == ledger \cup {key}

\* Lines 157-158 had the ledger been written for delivered alerts only.
LedgerAfterSend_OnDelivery(ledger, key, delivered) ==
    IF delivered THEN MarkFired(ledger, key) ELSE ledger

\* Lines 157-158: what send_upcoming_listing_alert returns is dropped, the
\* ledger is written whether the alert was delivered or not.
LedgerAfterSend(ledger, key, delivered) == MarkFired(ledger, key)

\* The thresholds from index `from` on whose window holds the listing.
InWindowFrom(l, nowv, from) ==
    { j \in from..Len(alert_times) :
        InWindow(TimeUntil(l, nowv), alert_times[j]) }

\* Those of them whose alert is still to be sent.
DueFrom(l, nowv, from, ledger) ==
    { j \in InWindowFrom(l, nowv, from) :
        ~AlreadyFired(ledger, AlertKey(l, alert_times[j])) }

Min(S) == CHOOSE x \in S : \A y \in S : x <= y

----------------------------------------------------------------------------
(* save_data, lines 58-70. *)

\* datetime.isoformat(): a string, not a datetime.
IsoFormat(t) == <<"iso", t>>

Serialize(live) ==
    [i \in 1..Len(live) |->
        [exchange |-> live[i].exchange, symbol |-> live[i].symbol,
         listing_time |-> IsoFormat(live[i].listing_time),
         announcement_url |-> live[i].announcement_url,
         status |-> live[i].status]]

\* listings_data.json: no file, a whole JSON document with these entries under
\* 'upcoming_listings', or the beginning of one.
Absent == [exists |-> FALSE, complete |-> FALSE, entries |-> <<>>]

Document(entries) == [exists |-> TRUE, complete |-> TRUE, entries |-> entries]

Truncated(entries) == [exists |-> TRUE, complete |-> FALSE, entries |-> entries]

----------------------------------------------------------------------------
\* Where check_listings stands with `rest` of the copy of
\* check_upcoming_listings left to iterate: in its loop, or, the loop over,
\* at save_data (line 123).
AfterListing(rest) == IF rest = <<>> THEN "save" ELSE "upcoming"

\* Where an exception of an alert would leave the program had nothing caught
\* it on its way out of check_listings and run.
AfterRaise_Propagates == "stopped"

\* Where an exception of an alert leaves the program: the except of
\* check_listings (lines 125-126) logs it, check_listings returns and run goes
\* on at line 194 as after any cycle.
AfterRaise == "report"

\* Line 191 had check_listings been started as a task of its own and not
\* awaited: the loop would come round to line 191 again while the cycle
\* before it is still in its alerts.
CycleStarts_Detached(p) == p \in {"check", "started", "upcoming"}

\* Lines 188-200: run awaits check_listings (line 191), the report and the
\* sleep one after the other; it is at line 191 again only when all of them
\* have returned.
CycleStarts(p) == p = "check"

\* The positions inside check_listings after its gather.
InCycle(p) == p \in {"started", "upcoming", "save"}

\* The identity of a listing: lines 95-96 compare symbol and exchange.
Identity(l) == <<l.exchange, l.symbol>>

\* The history of 'started' alerts: the identities such an alert was emitted
\* for (alerted) and the candidates admitted under one of them afterwards
\* (readmitted).  It is not kept, or kept and empty at startup.
NotKept == [kept |-> FALSE, alerted |-> {}, readmitted |-> {}]

Kept == [kept |-> TRUE, alerted |-> {}, readmitted |-> {}]

\* The history after a 'started' alert for listing l was emitted.
Remember(history, l) ==
    IF history.kept
    THEN [history EXCEPT !.alerted = @ \cup {Identity(l)}]
    ELSE history

\* The history after the admission of the candidates `new`.
RememberAdmitted(history, new) ==
    IF history.kept
    THEN [history EXCEPT !.readmitted =
            @ \cup { c \in Range(new) : Identity(c) \in history.alerted }]
    ELSE history

\* What __init__ and the start of run() set, but for the position, the live
\* set, the snapshot file, the network, what a gather returned and the text
\* given to an extractor.
Fresh ==
    /\ clock = 0
    /\ active_alerts = {}
    /\ current_time = 0
    /\ expired_listings = <<>>
    /\ exp_i = 0
    /\ rep_i = 0
    /\ path = "none"
    /\ sweep_now = 0
    /\ todo = <<>>
    /\ thr_i = 1
    /\ cycle_error = FALSE
    /\ last_report_time = 0
    /\ departed = {}
    /\ gathers = 0
    /\ upcoming_sent = [k \in Keys |-> 0]
    /\ ledger_hits = {}
    /\ raised_on = {}
    /\ undelivered = {}
    /\ results = <<>>
    /\ restored = <<>>
    /\ crashed = {}
    /\ report = <<>>
    /\ extracted = None
    /\ chat_id = None
    /\ config_chat_id = None
    /\ sent_to = {}
    /\ returned = None

Init ==
    /\ pc = "check"
    /\ upcoming_listings = <<>>
    /\ snapshot = Absent
    /\ feeds = <<>>
    /\ all_listings = <<>>
    /\ content = <<>>
    /\ started_for = NotKept
    /\ Fresh

\* check_listings up to its first alert: the gather (lines 81-85), in which
\* the adapters build `payload` and `delay` passes, admission (87-103) and the
\* expiry sweep (105-113).  Nothing awaits between lines 87 and 113, so they
\* read one clock value.
CheckListings(payload, delay) ==
    /\ CycleStarts(pc)
    /\ clock + delay <= MaxClock
    /\ IF payload = <<>> THEN delay = 0 ELSE gathers < MaxGathers
    /\ LET nowv == clock + delay
           new == NewUpcoming(payload, upcoming_listings, nowv)
           live1 == Extend(upcoming_listings, new, nowv)
           expd == Expired(live1, nowv)
           live2 == RemoveAll(live1, expd)
       IN /\ Len(live1) <= MaxRecords
          /\ started_for' = RememberAdmitted(started_for, new)
          /\ clock' = nowv
          /\ current_time' = nowv
          /\ all_listings' = payload
          /\ upcoming_listings' = live2
          /\ expired_listings' = expd
          /\ gathers' = IF payload # <<>> THEN gathers + 1 ELSE gathers
          /\ IF expd # <<>>
             THEN /\ pc' = "started"
                  /\ path' = "sweep"
                  /\ exp_i' = 1
                  /\ todo' = <<>>
                  /\ UNCHANGED sweep_now
             ELSE /\ pc' = AfterListing(live2)
                  /\ path' = "none"
                  /\ exp_i' = 0
                  /\ todo' = live2
                  /\ sweep_now' = nowv
    /\ rep_i' = 0
    /\ thr_i' = 1
    /\ cycle_error' = FALSE
    /\ departed' = {}
    /\ raised_on' = {}
    /\ ledger_hits' = {}
    /\ undelivered' = {}
    /\ UNCHANGED <<active_alerts, snapshot, last_report_time, upcoming_sent>>
    /\ UNCHANGED <<feeds, results, restored, crashed, report, content,
                   extracted, chat_id, config_chat_id, sent_to, returned>>

\* The listing send_listing_started_alerts is working on.
Alerting ==
    IF path = "sweep" THEN expired_listings[exp_i] ELSE Head(todo)

\* The same object with one more 'started' alert emitted.
Alerted(l) == [l EXCEPT !.sent = @ + 1]

\* One turn of the loop of send_listing_started_alerts (lines 130-135): one
\* alert, then the blocking sleep unless it was the last one.  After the last
\* alert the caller goes on: check_listings to the next expired listing or
\* into check_upcoming_listings (line 120), check_upcoming_listings to its
\* remove (line 147).  An exception of the notifier ends the cycle in the
\* except branch of check_listings (line 125).
SendStartedAlert(outcome) ==
    /\ pc = "started"
    /\ all_listings' = <<>>
    /\ IF outcome = "raise"
       THEN /\ cycle_error' = TRUE
            /\ raised_on' = raised_on \cup {<<"started", Alerting, 0>>}
            /\ pc' = AfterRaise
            /\ UNCHANGED <<clock, upcoming_listings, expired_listings, exp_i,
                           rep_i, path, sweep_now, todo, thr_i, departed>>
       ELSE /\ UNCHANGED <<cycle_error, raised_on, thr_i>>
            /\ IF path = "sweep"
               THEN /\ expired_listings' =
                        [expired_listings EXCEPT ![exp_i] = Alerted(@)]
                    /\ UNCHANGED <<upcoming_listings, path, departed>>
                    /\ IF rep_i < LISTING_ALERT_COUNT - 1
                       THEN /\ clock + LISTING_ALERT_INTERVAL <= MaxClock
                            /\ clock' = clock + LISTING_ALERT_INTERVAL
                            /\ rep_i' = rep_i + 1
                            /\ UNCHANGED <<pc, exp_i, sweep_now, todo>>
                       ELSE /\ rep_i' = 0
                            /\ UNCHANGED clock
                            /\ IF exp_i < Len(expired_listings)
                               THEN /\ exp_i' = exp_i + 1
                                    /\ UNCHANGED <<pc, sweep_now, todo>>
                               ELSE /\ pc' = AfterListing(upcoming_listings)
                                    /\ sweep_now' = clock
                                    /\ todo' = upcoming_listings
                                    /\ UNCHANGED exp_i
               ELSE /\ UNCHANGED <<expired_listings, exp_i, sweep_now>>
                    /\ IF rep_i < LISTING_ALERT_COUNT - 1
                       THEN /\ clock + LISTING_ALERT_INTERVAL <= MaxClock
                            /\ clock' = clock + LISTING_ALERT_INTERVAL
                            /\ rep_i' = rep_i + 1
                            /\ todo' = <<Alerted(Head(todo))>> \o Tail(todo)
                            /\ upcoming_listings' =
                                 [upcoming_listings EXCEPT
                                    ![IndexOf(upcoming_listings, Head(todo))] =
                                        Alerted(@)]
                            /\ UNCHANGED <<pc, path, departed>>
                       ELSE /\ rep_i' = 0
                            /\ UNCHANGED clock
                            /\ upcoming_listings' =
                                   Remove(upcoming_listings, Head(todo))
                            /\ departed' =
                                   departed \cup {Alerted(Head(todo))}
                            /\ todo' = Tail(todo)
                            /\ pc' = AfterListing(Tail(todo))
                            /\ path' = "none"
    /\ UNCHANGED <<active_alerts, current_time, snapshot, last_report_time,
                   gathers, upcoming_sent, ledger_hits, undelivered>>
    /\ started_for' = IF outcome = "raise" THEN started_for
                       ELSE Remember(started_for, Alerting)
    /\ UNCHANGED <<feeds, results, restored, crashed, report, content,
                   extracted, chat_id, config_chat_id, sent_to, returned>>

\* check_upcoming_listings, lines 141-146: the next listing of the copy has
\* started; its alerts follow.
UpcomingExpired ==
    /\ pc = "upcoming"
    /\ todo # <<>>
    /\ HasStarted(TimeUntil(Head(todo), sweep_now))
    /\ pc' = "started"
    /\ path' = "upcoming"
    /\ rep_i' = 0
    /\ all_listings' = <<>>
    /\ UNCHANGED <<clock, upcoming_listings, active_alerts, current_time,
                   expired_listings, exp_i, sweep_now, todo, thr_i,
                   cycle_error, snapshot, last_report_time, departed, gathers,
                   upcoming_sent, ledger_hits, raised_on, undelivered>>
    /\ UNCHANGED aside

\* check_upcoming_listings, lines 153-159, for the next listing of the copy:
\* the thresholds are walked up to the first one whose alert is sent (line
\* 157, an await), or to the end of alert_times.
UpcomingThreshold(outcome) ==
    /\ pc = "upcoming"
    /\ todo # <<>>
    /\ ~HasStarted(TimeUntil(Head(todo), sweep_now))
    /\ all_listings' = <<>>
    /\ LET l == Head(todo)
           due == DueFrom(l, sweep_now, thr_i, active_alerts)
           upto == IF due = {} THEN Len(alert_times) ELSE Min(due)
           seen == { AlertKey(l, alert_times[j]) :
                       j \in { i \in InWindowFrom(l, sweep_now, thr_i) :
                                 /\ i <= upto
                                 /\ AlreadyFired(active_alerts,
                                                 AlertKey(l, alert_times[i])) } }
           key == AlertKey(l, alert_times[upto])
       IN /\ ledger_hits' = ledger_hits \cup seen
          /\ IF due = {}
             THEN /\ outcome = "ok"
                  /\ todo' = Tail(todo)
                  /\ thr_i' = 1
                  /\ pc' = AfterListing(Tail(todo))
                  /\ UNCHANGED <<active_alerts, cycle_error,
                                 upcoming_sent, raised_on, undelivered>>
             ELSE IF outcome = "raise"
             THEN /\ cycle_error' = TRUE
                  /\ raised_on' =
                         raised_on \cup {<<"upcoming", l, alert_times[upto]>>}
                  /\ pc' = AfterRaise
                  /\ UNCHANGED <<active_alerts, todo, thr_i, upcoming_sent,
                                 undelivered>>
             ELSE /\ upcoming_sent' = [upcoming_sent EXCEPT ![key] = @ + 1]
                  /\ active_alerts' =
                         LedgerAfterSend(active_alerts, key, outcome = "ok")
                  /\ undelivered' = IF outcome = "fail"
                                    THEN undelivered \cup {key}
                                    ELSE undelivered
                  /\ IF upto < Len(alert_times)
                     THEN /\ thr_i' = upto + 1
                          /\ UNCHANGED <<pc, todo>>
                     ELSE /\ thr_i' = 1
                          /\ todo' = Tail(todo)
                          /\ pc' = AfterListing(Tail(todo))
                  /\ UNCHANGED <<cycle_error, raised_on>>
    /\ UNCHANGED <<clock, upcoming_listings, current_time, expired_listings,
                   exp_i, rep_i, path, sweep_now, snapshot, last_report_time,
                   departed, gathers>>
    /\ UNCHANGED aside

\* save_data (lines 55-76) writes the live set, and check_listings returns.
SaveData ==
    /\ pc = "save"
    /\ snapshot' = Document(Serialize(upcoming_listings))
    /\ pc' = "report"
    /\ all_listings' = <<>>
    /\ UNCHANGED <<clock, upcoming_listings, active_alerts, current_time,
                   expired_listings, exp_i, rep_i, path, sweep_now, todo,
                   thr_i, cycle_error, last_report_time, departed, gathers,
                   upcoming_sent, ledger_hits, raised_on, undelivered>>
    /\ UNCHANGED aside

\* Line 195 had the report been made after every cycle.
ReportDue_Always(nowv, last) == TRUE

\* Line 195: (now - last_report_time).total_seconds() >= config.CHECK_INTERVAL.
ReportDue(nowv, last) == nowv - last >= CHECK_INTERVAL

\* run, lines 193-197: the regular report when it is due.  send_regular_report
\* catches what the notifier raises.
RunReport ==
    /\ pc = "report"
    /\ last_report_time' =
           IF ReportDue(clock, last_report_time)
           THEN clock ELSE last_report_time
    /\ pc' = "sleep"
    /\ all_listings' = <<>>
    /\ UNCHANGED <<clock, upcoming_listings, active_alerts, current_time,
                   expired_listings, exp_i, rep_i, path, sweep_now, todo,
                   thr_i, cycle_error, snapshot, departed, gathers,
                   upcoming_sent, ledger_hits, raised_on, undelivered>>
    /\ UNCHANGED aside

\* run, line 200: the poll sleep; the locals of the cycle are gone.
PollSleep ==
    /\ pc = "sleep"
    /\ clock + POLL_SLEEP <= MaxClock
    /\ clock' = clock + POLL_SLEEP
    /\ pc' = "check"
    /\ expired_listings' = <<>>
    /\ exp_i' = 0
    /\ rep_i' = 0
    /\ path' = "none"
    /\ todo' = <<>>
    /\ thr_i' = 1
    /\ sweep_now' = 0
    /\ current_time' = 0
    /\ UNCHANGED <<upcoming_listings, active_alerts, all_listings,
                   cycle_error, snapshot, last_report_time, departed, gathers,
                   upcoming_sent, ledger_hits, raised_on, undelivered>>
    /\ UNCHANGED aside

\* run, lines 202-203: a KeyboardInterrupt ends the loop.  The model lets it
\* arrive during the poll sleep, where the program spends its idle time.
Interrupt ==
    /\ pc = "sleep"
    /\ pc' = "stopped"
    /\ UNCHANGED <<clock, upcoming_listings, active_alerts, all_listings,
                   current_time, expired_listings, exp_i, rep_i, path,
                   sweep_now, todo, thr_i, cycle_error, snapshot,
                   last_report_time, departed, gathers, upcoming_sent,
                   ledger_hits, raised_on, undelivered>>
    /\ UNCHANGED aside

\* run, line 191: the next cycle, with what the adapters build now.
Cycle ==
    /\ CycleStarts(pc)
    /\ \E payload \in Payloads(clock), delay \in FetchDelays :
           CheckListings(payload, delay)

StartedAlert(outcomes) == \E outcome \in outcomes : SendStartedAlert(outcome)

ThresholdAlert(outcomes) == \E outcome \in outcomes : UpcomingThreshold(outcome)

NextWith(outcomes) ==
    \/ Cycle
    \/ StartedAlert(outcomes)
    \/ UpcomingExpired
    \/ ThresholdAlert(outcomes)
    \/ SaveData
    \/ RunReport
    \/ PollSleep
    \/ Interrupt

Next == NextWith(SendOutcomes)

Spec == Init /\ [][Next]_vars

\* The runs in which the notifier never raises: every send is delivered or
\* fails with a TelegramError.
NextNoRaise == NextWith(SendOutcomes \ {"raise"})

SpecNoRaise == Init /\ [][NextNoRaise]_vars

----------------------------------------------------------------------------
(* get_all_listings seen from inside: the adapter tasks and the fan-out. *)

\* The listings the items of an adapter's payload announce.
Announced ==
    { Listing("OKX", "XYZ", 3750, "/d", "upcoming"),
      Listing("OKX", "XYZ", 150, "/c", "upcoming") }

\* What an adapter task meets: the listings its payload items announce, in
\* order, and a fault: none, an Exception (network or parse) raised while it
\* is at item `at` (at = Len(items) + 1: behind the last item), or the
\* cancellation of the task, which is no Exception.
FeedsOf(q) ==
    { [items |-> q, fault |-> "none", at |-> 0],
      [items |-> q, fault |-> "CancelledError", at |-> 0] }
    \cup { [items |-> q, fault |-> "Exception", at |-> k] :
             k \in 1..(Len(q) + 1) }

FeedSet == UNION { FeedsOf(q) : q \in SeqsUpTo(Announced, MaxItems) }

\* A result of asyncio.gather(..., return_exceptions=True): the list a task
\* returned, or the exception that ended it.
Returned(listings) == [kind |-> "list", listings |-> listings]

Ended(exception) == [kind |-> exception, listings |-> <<>>]

\* fetch_*_listings (exchange_monitor.py, e.g. lines 33-80): the listings are
\* appended item by item inside the try; `except Exception` logs and the
\* function returns the list as it stands.  What is no Exception leaves the
\* task.
Fetch(feed) ==
    IF feed.fault = "CancelledError" THEN Ended("CancelledError")
    ELSE IF feed.fault = "Exception"
         THEN Returned(SubSeq(feed.items, 1, feed.at - 1))
         ELSE Returned(feed.items)

\* Lines 337-341: the lists are concatenated in task order; what is no list
\* is logged or skipped.
RECURSIVE Collected(_)
Collected(res) ==
    IF res = <<>> THEN <<>>
    ELSE (IF Head(res).kind = "list" THEN Head(res).listings ELSE <<>>)
            \o Collected(Tail(res))

\* get_all_listings had the gather let the first exception through.
GetAllListings_FailFast(res) ==
    IF \E i \in 1..Len(res) : res[i].kind # "list"
    THEN <<>> ELSE Collected(res)

\* get_all_listings, lines 323-343, from the results of the gather on.
GetAllListings(res) == Collected(res)

\* One call of get_all_listings on an idle tracker.
InitGather ==
    /\ pc = "fetch"
    /\ upcoming_listings = <<>>
    /\ snapshot = Absent
    /\ feeds \in [1..MaxAdapters -> FeedSet]
    /\ all_listings = <<>>
    /\ content = <<>>
    /\ started_for = NotKept
    /\ Fresh

\* Lines 327-335: the adapter tasks run to their end.
FetchAll ==
    /\ pc = "fetch"
    /\ results' = [i \in 1..Len(feeds) |-> Fetch(feeds[i])]
    /\ pc' = "collect"
    /\ UNCHANGED <<clock, upcoming_listings, active_alerts, all_listings,
                   current_time, expired_listings, exp_i, rep_i, path,
                   sweep_now, todo, thr_i, cycle_error, snapshot,
                   last_report_time, departed, gathers, upcoming_sent,
                   ledger_hits, raised_on, undelivered, feeds, restored>>
    /\ UNCHANGED apart

\* Lines 337-343: the results are put together and returned.
Collect ==
    /\ pc = "collect"
    /\ all_listings' = GetAllListings(results)
    /\ pc' = "gathered"
    /\ UNCHANGED <<clock, upcoming_listings, active_alerts, current_time,
                   expired_listings, exp_i, rep_i, path, sweep_now, todo,
                   thr_i, cycle_error, snapshot, last_report_time, departed,
                   gathers, upcoming_sent, ledger_hits, raised_on,
                   undelivered, feeds, results, restored>>
    /\ UNCHANGED apart

NextGather == FetchAll \/ Collect

SpecGather == InitGather /\ [][NextGather]_vars

----------------------------------------------------------------------------
(* The fan-out of get_all_listings task by task, up to the admission that  *)
(* follows it in check_listings.                                           *)

\* A task of the gather that has not run to its end.
Pending == [kind |-> "pending", listings |-> <<>>]

\* What an adapter task meets here: at most one item, and the faults above.
BarrierFeeds == UNION { FeedsOf(q) : q \in SeqsUpTo(Announced, 1) }

\* The gather had it returned with the first task that ended (asyncio.wait
\* with FIRST_COMPLETED, or a loop over as_completed).
Joined_FirstCompleted(res) == \E i \in 1..Len(res) : res[i] # Pending

\* Line 335: asyncio.gather returns when every task has ended, with a list
\* or with an exception.
Joined(res) == \A i \in 1..Len(res) : res[i] # Pending

InitBarrier ==
    /\ pc = "spawn"
    /\ upcoming_listings = <<>>
    /\ snapshot = Absent
    /\ feeds \in [1..MaxAdapters -> BarrierFeeds]
    /\ all_listings = <<>>
    /\ content = <<>>
    /\ started_for = NotKept
    /\ Fresh

\* Lines 327-335: the coroutines are made and the gather starts them.
StartTasks ==
    /\ pc = "spawn"
    /\ results' = [i \in 1..Len(feeds) |-> Pending]
    /\ pc' = "gather"
    /\ UNCHANGED <<clock, upcoming_listings, active_alerts, all_listings,
                   current_time, expired_listings, exp_i, rep_i, path,
                   sweep_now, todo, thr_i, cycle_error, snapshot,
                   last_report_time, departed, gathers, upcoming_sent,
                   ledger_hits, raised_on, undelivered, feeds, restored>>
    /\ UNCHANGED apart

\* One of the running tasks ends, in any order: its result takes its place
\* in the results of the gather.
TaskEnds(i) ==
    /\ pc = "gather"
    /\ results[i] = Pending
    /\ results' = [results EXCEPT ![i] = Fetch(feeds[i])]
    /\ UNCHANGED <<clock, pc, upcoming_listings, active_alerts, all_listings,
                   current_time, expired_listings, exp_i, rep_i, path,
                   sweep_now, todo, thr_i, cycle_error, snapshot,
                   last_report_time, departed, gathers, upcoming_sent,
                   ledger_hits, raised_on, undelivered, feeds, restored>>
    /\ UNCHANGED apart

\* Line 335: the await of the gather returns.
Join ==
    /\ pc = "gather"
    /\ Joined(results)
    /\ pc' = "collect"
    /\ UNCHANGED <<clock, upcoming_listings, active_alerts, all_listings,
                   current_time, expired_listings, exp_i, rep_i, path,
                   sweep_now, todo, thr_i, cycle_error, snapshot,
                   last_report_time, departed, gathers, upcoming_sent,
                   ledger_hits, raised_on, undelivered, feeds, results,
                   restored>>
    /\ UNCHANGED apart

\* check_listings, lines 87-103: admission of what get_all_listings returned.
Admit ==
    /\ pc = "gathered"
    /\ upcoming_listings' =
           Extend(upcoming_listings,
                  NewUpcoming(all_listings, upcoming_listings, clock), clock)
    /\ pc' = "admitted"
    /\ UNCHANGED <<clock, active_alerts, all_listings, current_time,
                   expired_listings, exp_i, rep_i, path, sweep_now, todo,
                   thr_i, cycle_error, snapshot, last_report_time, departed,
                   gathers, upcoming_sent, ledger_hits, raised_on,
                   undelivered, feeds, results, restored>>
    /\ UNCHANGED apart

AnyTaskEnds == \E i \in 1..Len(feeds) : TaskEnds(i)

NextBarrier == StartTasks \/ AnyTaskEnds \/ Join \/ Collect \/ Admit

SpecBarrier == InitBarrier /\ [][NextBarrier]_vars

----------------------------------------------------------------------------
(* save_data and load_data seen from inside: the file between two runs. *)

\* The listings of the live sets that are saved.
Stored ==
    { Listing("MEXC", "ABC", 89, None, "upcoming"),
      Listing("OKX", "XYZ", 150, "/c", "upcoming"),
      Listing("OKX", "XYZ", 3750, "/d", "upcoming") }

LiveSets ==
    { [i \in 1..Len(q) |-> Tracked(q[i], 0)] : q \in SeqsUpTo(Stored, MaxStored) }

\* Entries json.load returns that load_data cannot turn into a Listing: one
\* without 'listing_time' (KeyError at line 45) and one whose 'listing_time'
\* is no ISO timestamp (ValueError at line 45).
BadEntries ==
    { [exchange |-> "OKX", symbol |-> "XYZ", listing_time |-> <<"missing", 0>>,
       announcement_url |-> "/c", status |-> "upcoming"],
      [exchange |-> "OKX", symbol |-> "XYZ", listing_time |-> <<"invalid", 0>>,
       announcement_url |-> "/c", status |-> "upcoming"] }

GoodEntries == { Serialize(<<Tracked(c, 0)>>)[1] : c \in Stored }

\* The files a run can find at startup.
StartFiles ==
    {Absent}
    \cup { Document(q) : q \in SeqsUpTo(GoodEntries \cup BadEntries, MaxStored) }
    \cup { Truncated(q) : q \in SeqsUpTo(GoodEntries, MaxStored - 1) }

\* The files an earlier save_data that ran to its end has left.
SavedFiles == {Absent} \cup { Document(Serialize(S)) : S \in LiveSets }

\* datetime.fromisoformat had it dropped the seconds.
FromIsoFormat_Minutes(text) == (text[2] \div 60) * 60

\* datetime.fromisoformat of what isoformat wrote.
FromIsoFormat(text) == text[2]

\* Line 45 raises on this entry.
IsLoadable(item) == item.listing_time[1] = "iso"

\* Lines 42-48: the Listing of one entry.
LoadItem(item) ==
    Listing(item.exchange, item.symbol, FromIsoFormat(item.listing_time),
            item.announcement_url, item.status)

\* Lines 40-49: the entries are appended one by one to the list line 40
\* emptied; an entry that raises ends the loop in the except of line 52, with
\* what was appended before it left in place.
RECURSIVE LoadItems(_)
LoadItems(entries) ==
    IF entries = <<>> \/ ~IsLoadable(Head(entries)) THEN <<>>
    ELSE <<LoadItem(Head(entries))>> \o LoadItems(Tail(entries))

\* load_data, lines 30-53, in a fresh tracker: no file, or a file json.load
\* (line 35) raises on, leaves the empty list of __init__.
LoadData(file) ==
    IF ~file.exists \/ ~file.complete THEN <<>>
    ELSE LoadItems(file.entries)

\* A run starts on what it finds, or a running tracker is about to save its
\* live set over what an earlier save left.
InitStore ==
    /\ pc \in {"start", "save"}
    /\ IF pc = "start"
       THEN upcoming_listings = <<>> /\ snapshot \in StartFiles
       ELSE upcoming_listings \in LiveSets /\ snapshot \in SavedFiles
    /\ feeds = <<>>
    /\ all_listings = <<>>
    /\ content = <<>>
    /\ started_for = NotKept
    /\ Fresh

\* save_data, line 72: open(..., 'w') empties the file.
StoreOpen ==
    /\ pc = "save"
    /\ snapshot' = Truncated(<<>>)
    /\ pc' = "dump"
    /\ UNCHANGED <<clock, upcoming_listings, active_alerts, all_listings,
                   current_time, expired_listings, exp_i, rep_i, path,
                   sweep_now, todo, thr_i, cycle_error, last_report_time,
                   departed, gathers, upcoming_sent, ledger_hits, raised_on,
                   undelivered, feeds, results, restored>>
    /\ UNCHANGED apart

\* save_data, line 73: json.dump writes the document piece by piece; the
\* last piece closes it.
StoreDump ==
    /\ pc = "dump"
    /\ LET doc == Serialize(upcoming_listings)
           n == Len(snapshot.entries)
       IN IF n < Len(doc)
          THEN /\ snapshot' = Truncated(SubSeq(doc, 1, n + 1))
               /\ pc' = "dump"
          ELSE /\ snapshot' = Document(doc)
               /\ pc' = "saved"
    /\ UNCHANGED <<clock, upcoming_listings, active_alerts, all_listings,
                   current_time, expired_listings, exp_i, rep_i, path,
                   sweep_now, todo, thr_i, cycle_error, last_report_time,
                   departed, gathers, upcoming_sent, ledger_hits, raised_on,
                   undelivered, feeds, results, restored>>
    /\ UNCHANGED apart

\* The process dies while json.dump is writing.
StoreCrash ==
    /\ pc = "dump"
    /\ pc' = "crashed"
    /\ UNCHANGED <<clock, upcoming_listings, active_alerts, all_listings,
                   current_time, expired_listings, exp_i, rep_i, path,
                   sweep_now, todo, thr_i, cycle_error, snapshot,
                   last_report_time, departed, gathers, upcoming_sent,
                   ledger_hits, raised_on, undelivered, feeds, results,
                   restored>>
    /\ UNCHANGED apart

\* run, line 181: a fresh tracker loads the file: at a first start, after a
\* save that ran to its end, or after a crash.
StoreLoad ==
    /\ pc \in {"start", "saved", "crashed"}
    /\ restored' = LoadData(snapshot)
    /\ pc' = CASE pc = "start" -> "loaded"
              [] pc = "saved" -> "reloaded"
              [] pc = "crashed" -> "recovered"
    /\ UNCHANGED <<clock, upcoming_listings, active_alerts, all_listings,
                   current_time, expired_listings, exp_i, rep_i, path,
                   sweep_now, todo, thr_i, cycle_error, snapshot,
                   last_report_time, departed, gathers, upcoming_sent,
                   ledger_hits, raised_on, undelivered, feeds, results>>
    /\ UNCHANGED apart

NextStore == StoreOpen \/ StoreDump \/ StoreCrash \/ StoreLoad

SpecStore == InitStore /\ [][NextStore]_vars

----------------------------------------------------------------------------
(* send_regular_report, lines 161-174: what the regular report holds. *)

\* The listing times of the live sets that are reported, around the clock
\* value 0 of the report: past, now, and ahead.
ReportTimes == {-50, 0, 50, 100}

ReportLiveSets ==
    { [i \in 1..Len(q) |->
          Tracked(Listing("OKX", "XYZ", q[i], "/r", "upcoming"), -100)] :
        q \in SeqsUpTo(ReportTimes, MaxReportable) }

\* Line 166: the tracked listings whose time is ahead, in list order.
Ahead(live, nowv) == SelectSeq(live, LAMBDA l : l.listing_time > nowv)

\* One step of a stable sort by listing_time: x goes behind the elements
\* that are not later than it.
RECURSIVE Insert(_, _)
Insert(sorted, x) ==
    IF sorted = <<>> THEN <<x>>
    ELSE IF Head(sorted).listing_time <= x.listing_time
         THEN <<Head(sorted)>> \o Insert(Tail(sorted), x)
         ELSE <<x>> \o sorted

\* A stable sort by listing_time, as sorted() with that key is.
RECURSIVE StableSort(_)
StableSort(q) ==
    IF q = <<>> THEN <<>>
    ELSE Insert(StableSort(SubSeq(q, 1, Len(q) - 1)), q[Len(q)])

\* Lines 165-168 without the sort.
SortedByTime_AsIs(q) == q

\* Lines 165-168: sorted(..., key=lambda x: x.listing_time).
SortedByTime(q) == StableSort(q)

\* The slice [:n].
FirstN(q, n) == SubSeq(q, 1, IF Len(q) < n THEN Len(q) ELSE n)

\* Lines 165-168: upcoming_sorted.  format_upcoming_listings_message
\* (telegram_bot.py line 47) sorts and cuts it once more, which changes
\* nothing.
UpcomingSorted(live, nowv) ==
    FirstN(SortedByTime(FirstN(SortedByTime(Ahead(live, nowv)), REPORT_SIZE)),
           REPORT_SIZE)

InitReport ==
    /\ pc = "report"
    /\ upcoming_listings \in ReportLiveSets
    /\ snapshot = Absent
    /\ feeds = <<>>
    /\ all_listings = <<>>
    /\ content = <<>>
    /\ started_for = NotKept
    /\ Fresh

\* send_regular_report builds the report and hands it to the notifier.
SendRegularReport ==
    /\ pc = "report"
    /\ report' = UpcomingSorted(upcoming_listings, clock)
    /\ pc' = "reported"
    /\ UNCHANGED <<clock, upcoming_listings, active_alerts, all_listings,
                   current_time, expired_listings, exp_i, rep_i, path,
                   sweep_now, todo, thr_i, cycle_error, snapshot,
                   last_report_time, departed, gathers, upcoming_sent,
                   ledger_hits, raised_on, undelivered, feeds, results,
                   restored, crashed, content, extracted>>
    /\ UNCHANGED <<started_for, chat_id, config_chat_id, sent_to, returned>>

NextReport == SendRegularReport

SpecReport == InitReport /\ [][NextReport]_vars

----------------------------------------------------------------------------
(* Admission of candidates whose exchange names differ in letter case.     *)

\* Candidates as the aggregator parsers of social_monitor.py name their
\* exchange, with str.title() (lines 303, 323, 379), next to one named as
\* exchange_monitor.py does (line 311).
CaseCandidates ==
    { Listing("Okx", "XYZ", 150, "/s", "upcoming"),
      Listing("Mexc", "ABC", 89, "/t", "upcoming"),
      Listing("OKX", "XYZ", 150, "/c", "upcoming") }

\* str.lower() on the exchange names in play.
Lower(e) ==
    CASE e \in {"OKX", "Okx"} -> "okx"
      [] e \in {"MEXC", "Mexc"} -> "mexc"
      [] OTHER -> e

\* A tracker with a live set, at the return of a gather.
InitAdmit ==
    /\ pc = "gathered"
    /\ upcoming_listings \in LiveSets
    /\ snapshot = Absent
    /\ feeds = <<>>
    /\ all_listings \in SeqsUpTo(CaseCandidates, MaxCand)
    /\ content = <<>>
    /\ started_for = NotKept
    /\ Fresh

NextAdmit == Admit

SpecAdmit == InitAdmit /\ [][NextAdmit]_vars

----------------------------------------------------------------------------
(* Symbol extraction: _extract_symbol of enhanced_exchange_monitor.py and  *)
(* the adapters of exchange_monitor.py.                                    *)

\* A word of a title, standing free or in parentheses.
Word(w) == [w |-> w, paren |-> FALSE]

InParens(w) == [w |-> w, paren |-> TRUE]

TitleWords ==
    { Word("NEW"), Word("ABC"), InParens("ABC"), InParens("USD"),
      Word("listing"), Word("token") }

Titles == SeqsUpTo(TitleWords, MaxWords)

\* The words [A-Z]{2,10} matches as a whole.
IsUpperRun(w) == w \in {"NEW", "ABC", "USD"}

\* str.lower() on the words in play.
LowerWord(w) ==
    CASE w = "NEW" -> "new"
      [] w = "ABC" -> "abc"
      [] w = "USD" -> "usd"
      [] OTHER -> w

\* enhanced_exchange_monitor.py, line 331.
Stoplist ==
    {"USD", "BTC", "ETH", "USDT", "THE", "NEW", "AND", "FOR", "YOU", "ALL"}

\* Where the three patterns of _extract_symbol (lines 320-324) match at word
\* i of a title: an uppercase run in parentheses; an uppercase run between
\* word boundaries; an uppercase run with 'token' or 'coin' behind it.
MatchesAt(k, title, i) ==
    /\ IsUpperRun(title[i].w)
    /\ CASE k = 1 -> title[i].paren
          [] k = 2 -> TRUE
          [] k = 3 -> /\ ~title[i].paren
                      /\ i < Len(title)
                      /\ ~title[i + 1].paren
                      /\ LowerWord(title[i + 1].w) \in {"token", "coin"}
                      /\ title[i + 1].w = LowerWord(title[i + 1].w)

\* re.search: group 1 of the leftmost match, or None.
Search(k, title) ==
    LET at == { i \in 1..Len(title) : MatchesAt(k, title, i) }
    IN IF at = {} THEN None ELSE title[Min(at)].w

\* _extract_symbol, lines 326-334, from pattern k on.
RECURSIVE ExtractSymbolFrom(_, _)
ExtractSymbolFrom(k, title) ==
    IF k > 3 THEN None
    ELSE LET symbol == Search(k, title)
         IN IF symbol # None /\ symbol \notin Stoplist
            THEN symbol
            ELSE ExtractSymbolFrom(k + 1, title)

ExtractSymbol(title) == ExtractSymbolFrom(1, title)

\* exchange_monitor.py, line 158: a keyword is in title.lower().
HasKeyword(title) ==
    \/ \E i \in 1..Len(title) :
          ~title[i].paren /\ LowerWord(title[i].w) = "listing"
    \/ \E i \in 1..(Len(title) - 1) :
          /\ ~title[i].paren /\ ~title[i + 1].paren
          /\ LowerWord(title[i].w) = "new"
          /\ LowerWord(title[i + 1].w) = "token"

\* _parse_mexc_announcements for one article, lines 157-178: the symbol is
\* group 1 of re.search(r'\b([A-Z]{2,10})\b', title) as it is; a title
\* without a time gets now + 1 hour (lines 166-168).
ParseAnnouncement(title, nowv) ==
    IF HasKeyword(title) /\ Search(2, title) # None
    THEN << Listing("MEXC", Search(2, title), nowv + 3600, "/m", "upcoming") >>
    ELSE <<>>

\* A title is given to _extract_symbol, or an article with that title is
\* in the page an adapter parses.
InitSymbol ==
    /\ pc \in {"title", "article"}
    /\ upcoming_listings = <<>>
    /\ snapshot = Absent
    /\ feeds = <<>>
    /\ all_listings = <<>>
    /\ content \in Titles
    /\ started_for = NotKept
    /\ Fresh

CallExtractSymbol ==
    /\ pc = "title"
    /\ extracted' = ExtractSymbol(content)
    /\ pc' = "extracted"
    /\ UNCHANGED <<clock, upcoming_listings, active_alerts, all_listings,
                   current_time, expired_listings, exp_i, rep_i, path,
                   sweep_now, todo, thr_i, cycle_error, snapshot,
                   last_report_time, departed, gathers, upcoming_sent,
                   ledger_hits, raised_on, undelivered, feeds, results,
                   restored, crashed, report, content>>
    /\ UNCHANGED <<started_for, chat_id, config_chat_id, sent_to, returned>>

\* The adapter builds its listings and get_all_listings returns them.
ParseArticle ==
    /\ pc = "article"
    /\ all_listings' = ParseAnnouncement(content, clock)
    /\ pc' = "gathered"
    /\ UNCHANGED <<clock, upcoming_listings, active_alerts,
                   current_time, expired_listings, exp_i, rep_i, path,
                   sweep_now, todo, thr_i, cycle_error, snapshot,
                   last_report_time, departed, gathers, upcoming_sent,
                   ledger_hits, raised_on, undelivered, feeds, results,
                   restored, crashed, report, content, extracted>>
    /\ UNCHANGED <<started_for, chat_id, config_chat_id, sent_to, returned>>

NextSymbol == CallExtractSymbol \/ ParseArticle \/ Admit

SpecSymbol == InitSymbol /\ [][NextSymbol]_vars

----------------------------------------------------------------------------
(* _extract_listing_time, exchange_monitor.py lines 345-415.  Time in this *)
(* section is in hours, now is the clock value.                            *)

\* What the extractor returns: a datetime, or None.
At(t) == [found |-> TRUE, at |-> t]

NoTime == [found |-> FALSE, at |-> 0]

\* A phrase one of the five absolute patterns (lines 355-366) matches:
\* pattern k, and what dateutil's parser makes of the captured text after the
\* year step of lines 381-387, a datetime or an exception.
Absolute(k, t) == [kind |-> "absolute", pattern |-> k, parses |-> TRUE, n |-> t]

Unparsable(k) == [kind |-> "absolute", pattern |-> k, parses |-> FALSE, n |-> 0]

\* A phrase relative pattern k (lines 397-401) matches, with its number.
Relative(k, n) == [kind |-> "relative", pattern |-> k, parses |-> TRUE, n |-> n]

\* Words no pattern matches.
OtherWords == [kind |-> "words", pattern |-> 0, parses |-> FALSE, n |-> 0]

\* The phrases of the texts in this model: 'YYYY-MM-DD HH:MM UTC' in the
\* past, twice ahead, and with a month 13; 'Month DD, YYYY at HH:MM UTC'
\* ahead; 'start at HH:MM UTC' of an hour gone by; 'in N hours' with N = 0,
\* 2 and 8 * 10^7; 'in 1 days'; 'after 4 hours'; other words.
Phrases ==
    { Absolute(1, -5), Absolute(1, 7), Absolute(1, 9), Unparsable(1),
      Absolute(2, 3), Absolute(5, -1),
      Relative(1, 0), Relative(1, 2), Relative(1, 80000000),
      Relative(2, 1), Relative(3, 4),
      OtherWords }

Contents == SeqsUpTo(Phrases, MaxPhrases)

\* Line 390 without the test.
Accepts_Any(parsed_time, nowv) == TRUE

\* Line 390: the date is in the future.
Accepts(parsed_time, nowv) == parsed_time > nowv

\* The positions of the matches of absolute pattern k that are tried, had
\* the code used re.search: the leftmost match only.
Matches_LeftmostOnly(k, text) ==
    LET all == { i \in 1..Len(text) :
                   text[i].kind = "absolute" /\ text[i].pattern = k }
    IN IF all = {} THEN {} ELSE {Min(all)}

\* Line 369: re.findall, every match of absolute pattern k.
Matches(k, text) ==
    { i \in 1..Len(text) : text[i].kind = "absolute" /\ text[i].pattern = k }

\* Lines 408-411 with the unit of the wrong branch.
Offset_Days(k, amount) == 24 * amount

\* Lines 408-411: 'hour' is in the first and third pattern, 'day' in the
\* second.
Offset(k, amount) == IF k = 2 THEN 24 * amount ELSE amount

\* datetime.now() + timedelta(...) is a datetime.
Representable(t) == t <= HOURS_TO_MAX

\* Lines 403-413 from relative pattern k on: re.search takes the leftmost
\* match of the pattern; what the conversion raises is swallowed (line 412)
\* and the next pattern is tried.
RECURSIVE RelativeFrom(_, _, _)
RelativeFrom(k, text, nowv) ==
    IF k > 3 THEN NoTime
    ELSE LET at == { i \in 1..Len(text) :
                       text[i].kind = "relative" /\ text[i].pattern = k }
         IN IF at # {} /\ Representable(nowv + Offset(k, text[Min(at)].n))
            THEN At(nowv + Offset(k, text[Min(at)].n))
            ELSE RelativeFrom(k + 1, text, nowv)

\* Lines 368-394 from absolute pattern k and text position i on: the
\* matches of a pattern in text order, pattern after pattern; a match that
\* does not parse (line 393) or is not accepted is passed over.
RECURSIVE AbsoluteFrom(_, _, _, _)
AbsoluteFrom(k, i, text, nowv) ==
    IF k > 5 THEN RelativeFrom(1, text, nowv)
    ELSE IF i > Len(text) THEN AbsoluteFrom(k + 1, 1, text, nowv)
    ELSE IF /\ i \in Matches(k, text)
            /\ text[i].parses
            /\ Accepts(text[i].n, nowv)
         THEN At(text[i].n)
         ELSE AbsoluteFrom(k, i + 1, text, nowv)

ExtractListingTime(text, nowv) == AbsoluteFrom(1, 1, text, nowv)

InitTime ==
    /\ pc = "content"
    /\ upcoming_listings = <<>>
    /\ snapshot = Absent
    /\ feeds = <<>>
    /\ all_listings = <<>>
    /\ content \in Contents
    /\ started_for = NotKept
    /\ Fresh

CallExtractListingTime ==
    /\ pc = "content"
    /\ extracted' = ExtractListingTime(content, clock)
    /\ pc' = "timed"
    /\ UNCHANGED <<clock, upcoming_listings, active_alerts, all_listings,
                   current_time, expired_listings, exp_i, rep_i, path,
                   sweep_now, todo, thr_i, cycle_error, snapshot,
                   last_report_time, departed, gathers, upcoming_sent,
                   ledger_hits, raised_on, undelivered, feeds, results,
                   restored, crashed, report, content>>
    /\ UNCHANGED <<started_for, chat_id, config_chat_id, sent_to, returned>>

NextTime == CallExtractListingTime

SpecTime == InitTime /\ [][NextTime]_vars

----------------------------------------------------------------------------
(* The process dies in the middle of a 'started' sequence and is started   *)
(* again.                                                                  *)

\* The process dies while send_listing_started_alerts (lines 130-135) has sent
\* some of the alerts of a listing and not all.  What was in memory is gone:
\* the live set, the ledger, the locals; the file stays as the last save_data
\* left it.
Crash ==
    /\ pc = "started"
    /\ rep_i \in 1..(LISTING_ALERT_COUNT - 1)
    /\ crashed = {}
    /\ crashed' = {Alerting}
    /\ pc' = "down"
    /\ upcoming_listings' = <<>>
    /\ active_alerts' = {}
    /\ all_listings' = <<>>
    /\ current_time' = 0
    /\ expired_listings' = <<>>
    /\ exp_i' = 0
    /\ rep_i' = 0
    /\ path' = "none"
    /\ sweep_now' = 0
    /\ todo' = <<>>
    /\ thr_i' = 1
    /\ cycle_error' = FALSE
    /\ departed' = {}
    /\ ledger_hits' = {}
    /\ raised_on' = {}
    /\ undelivered' = {}
    /\ UNCHANGED <<clock, snapshot, last_report_time, gathers, upcoming_sent,
                   feeds, results, restored, report, content, extracted,
                   started_for, chat_id, config_chat_id, sent_to, returned>>

\* The process is started again: __init__ (lines 22-28), then run loads the
\* file (line 181), sets last_report_time (line 186) and enters the loop.
Restart ==
    /\ pc = "down"
    /\ LET loaded == LoadData(snapshot)
       IN upcoming_listings' =
              [i \in 1..Len(loaded) |-> Tracked(loaded[i], clock)]
    /\ last_report_time' = clock
    /\ pc' = "check"
    /\ UNCHANGED <<clock, active_alerts, all_listings, current_time,
                   expired_listings, exp_i, rep_i, path, sweep_now, todo,
                   thr_i, cycle_error, snapshot, departed, gathers,
                   upcoming_sent, ledger_hits, raised_on, undelivered,
                   feeds, results, restored, crashed, report, content,
                   extracted, started_for, chat_id, config_chat_id, sent_to,
                   returned>>

NextRestart == Next \/ Crash \/ Restart

SpecRestart == Init /\ [][NextRestart]_vars

----------------------------------------------------------------------------
(* The structured adapters: the OKX instruments API of                     *)
(* exchange_monitor.py (lines 241-269) and of enhanced_exchange_monitor.py *)
(* (lines 270-300).  listTime is in milliseconds, now is the clock value.  *)

\* The value of 'listTime' in the API's answer: a string of digits, the
\* milliseconds, or nothing.
Digits(ms) == <<"digits", ms>>

NoListTime == <<"absent", 0>>

\* int(list_time).
ParseInt(digits) == digits[2]

\* An instrument of the API's answer: its instId and its listTime.
Instrument(inst_id, list_time) == [instId |-> inst_id, listTime |-> list_time]

\* inst_id.split('-') for the instIds of this model.
SplitInstId(inst_id) ==
    CASE inst_id = "XYZ-USDT" -> <<"XYZ", "USDT">>
      [] inst_id = "ABC-EUR" -> <<"ABC", "EUR">>
      [] OTHER -> <<inst_id>>

\* inst_id.lower() for the instIds of this model.
LowerInstId(inst_id) ==
    CASE inst_id = "XYZ-USDT" -> "xyz-usdt"
      [] inst_id = "ABC-EUR" -> "abc-eur"
      [] OTHER -> inst_id

\* The instruments the API can answer with: one without listTime, one listed
\* more than 48 hours ago, one between 24 and 48 hours ago, one a moment ago,
\* one listed now, and two that are listed later.
Instruments ==
    { Instrument("XYZ-USDT", NoListTime),
      Instrument("XYZ-USDT", Digits(-180000000)),
      Instrument("XYZ-USDT", Digits(-90000000)),
      Instrument("XYZ-USDT", Digits(-100000)),
      Instrument("XYZ-USDT", Digits(0)),
      Instrument("XYZ-USDT", Digits(150000)),
      Instrument("ABC-EUR", Digits(3750000)) }

\* Lines 255 (284): datetime.fromtimestamp(int(list_time) / 1000).
FromTimestamp(list_time) == ParseInt(list_time) \div 1000

\* Line 259: inst_id.replace('-USDT', '').replace('-BTC', '').
SymbolOf(inst_id) ==
    LET parts == SplitInstId(inst_id)
    IN IF Len(parts) = 2 /\ parts[2] \in {"USDT", "BTC"}
       THEN parts[1] ELSE inst_id

\* Line 265: the trade page of the instrument.
TradePage(inst_id) == <<"/trade-spot/", LowerInstId(inst_id)>>

\* Line 266: status='active', whatever the listTime.
StatusOf(list_datetime, nowv) == "active"

\* Line 258: datetime.now() - list_datetime < timedelta(hours=24).
IsRecent(list_datetime, nowv) == nowv - list_datetime < RECENT_WINDOW

\* fetch_okx_listings, lines 247-267: the listings built from the first 50
\* instruments of the answer.
RECURSIVE FromInstruments(_, _)
FromInstruments(data, nowv) ==
    IF data = <<>> THEN <<>>
    ELSE LET instrument == Head(data)
             list_datetime == FromTimestamp(instrument.listTime)
         IN (IF instrument.listTime # NoListTime /\ IsRecent(list_datetime, nowv)
             THEN << Listing("OKX", SymbolOf(instrument.instId),
                             list_datetime, TradePage(instrument.instId),
                             StatusOf(list_datetime, nowv)) >>
             ELSE <<>>)
            \o FromInstruments(Tail(data), nowv)

FetchOkxInstruments(data, nowv) ==
    FromInstruments(FirstN(data, RECENT_INSTRUMENTS), nowv)

\* _get_okx_api_listings of enhanced_exchange_monitor.py, lines 283-300, for
\* one instrument: kept when listed in the last 48 hours or later, 'upcoming'
\* when its time is ahead and 'active' otherwise.
RECURSIVE FromApiInstruments(_, _)
FromApiInstruments(data, nowv) ==
    IF data = <<>> THEN <<>>
    ELSE LET inst == Head(data)
             list_datetime == FromTimestamp(inst.listTime)
         IN (IF \/ nowv - list_datetime < API_WINDOW
                \/ list_datetime > nowv
             THEN << Listing("OKX", SplitInstId(inst.instId)[1], list_datetime,
                             TradePage(inst.instId),
                             IF list_datetime > nowv
                             THEN "upcoming" ELSE "active") >>
             ELSE <<>>)
            \o FromApiInstruments(Tail(data), nowv)

\* Lines 274-283: the instruments that have a listTime, latest first (the
\* sort is stable), and the first 20 of them.
LaterFirst(a, b) == ParseInt(a.listTime) > ParseInt(b.listTime)

RECURSIVE ByListTime(_)
ByListTime(q) ==
    IF q = <<>> THEN <<>>
    ELSE LET rest == ByListTime(Tail(q))
             before == SelectSeq(rest, LAMBDA x : LaterFirst(x, Head(q)))
             after == SelectSeq(rest, LAMBDA x : ~LaterFirst(x, Head(q)))
         IN before \o <<Head(q)>> \o after

GetOkxApiListings(data, nowv) ==
    FromApiInstruments(
        FirstN(ByListTime(SelectSeq(data, LAMBDA i : i.listTime # NoListTime)),
               API_INSTRUMENTS),
        nowv)

\* The answer of the instruments API arrives at one of the two adapters of an
\* idle tracker.
InitInstruments ==
    /\ pc \in {"okx", "okx_api"}
    /\ upcoming_listings = <<>>
    /\ snapshot = Absent
    /\ feeds \in SeqsUpTo(Instruments, MaxInstruments)
    /\ all_listings = <<>>
    /\ content = <<>>
    /\ started_for = NotKept
    /\ Fresh

\* fetch_okx_listings from the answer of the API on; the listings are what
\* get_all_listings returns.
CallFetchOkx ==
    /\ pc = "okx"
    /\ all_listings' = FetchOkxInstruments(feeds, clock)
    /\ pc' = "gathered"
    /\ UNCHANGED <<clock, upcoming_listings, active_alerts, current_time,
                   expired_listings, exp_i, rep_i, path, sweep_now, todo,
                   thr_i, cycle_error, snapshot, last_report_time, departed,
                   gathers, upcoming_sent, ledger_hits, raised_on,
                   undelivered, feeds, results, restored>>
    /\ UNCHANGED apart

\* _get_okx_api_listings from the answer of the API on.
CallGetOkxApi ==
    /\ pc = "okx_api"
    /\ all_listings' = GetOkxApiListings(feeds, clock)
    /\ pc' = "api_gathered"
    /\ UNCHANGED <<clock, upcoming_listings, active_alerts, current_time,
                   expired_listings, exp_i, rep_i, path, sweep_now, todo,
                   thr_i, cycle_error, snapshot, last_report_time, departed,
                   gathers, upcoming_sent, ledger_hits, raised_on,
                   undelivered, feeds, results, restored>>
    /\ UNCHANGED apart

NextInstruments == CallFetchOkx \/ CallGetOkxApi \/ Admit

SpecInstruments == InitInstruments /\ [][NextInstruments]_vars

----------------------------------------------------------------------------
(* The polling cycle with the history of 'started' alerts kept. *)

InitKept ==
    /\ pc = "check"
    /\ upcoming_listings = <<>>
    /\ snapshot = Absent
    /\ feeds = <<>>
    /\ all_listings = <<>>
    /\ content = <<>>
    /\ started_for = Kept
    /\ Fresh

SpecKept == InitKept /\ [][Next]_vars

----------------------------------------------------------------------------
(* The loop that keeps running: no KeyboardInterrupt arrives, every await   *)
(* of the cycle returns or raises, and the sleeps end.                      *)

NextRunning ==
    \/ Cycle
    \/ StartedAlert(SendOutcomes)
    \/ UpcomingExpired
    \/ ThresholdAlert(SendOutcomes)
    \/ SaveData
    \/ RunReport
    \/ PollSleep

\* run is one coroutine on the event loop: whatever it awaits (the gather,
\* a send of the notifier, asyncio.sleep) ends, and it takes its next step.
SpecRunning == Init /\ [][NextRunning]_vars /\ WF_vars(NextRunning)

----------------------------------------------------------------------------
(* Startup on the file an earlier run left, and the first cycle after it. *)

\* The time the process was down: the clock value at startup, counted from
\* the save that wrote the file.
Downtimes == {0, 100, 200}

\* The file holds the live set the earlier run saved last.
InitStartup ==
    /\ pc = "startup"
    /\ upcoming_listings = <<>>
    /\ snapshot \in { Document(Serialize(live)) : live \in LiveSets }
    /\ feeds = <<>>
    /\ all_listings = <<>>
    /\ content = <<>>
    /\ started_for = NotKept
    /\ Fresh

\* run, lines 178-186: load_data fills the live set from the file, the
\* startup message is sent, last_report_time is taken, and the loop is
\* entered.
Startup(downtime) ==
    /\ pc = "startup"
    /\ clock' = clock + downtime
    /\ restored' = LoadData(snapshot)
    /\ upcoming_listings' =
           [i \in 1..Len(restored') |-> Tracked(restored'[i], clock')]
    /\ last_report_time' = clock'
    /\ pc' = "check"
    /\ UNCHANGED <<active_alerts, all_listings, current_time,
                   expired_listings, exp_i, rep_i, path, sweep_now, todo,
                   thr_i, cycle_error, snapshot, departed, gathers,
                   upcoming_sent, ledger_hits, raised_on, undelivered,
                   feeds, results>>
    /\ UNCHANGED apart

StartupAfterDowntime == \E downtime \in Downtimes : Startup(downtime)

\* The steps up to the return of the first check_listings.
NextStartup ==
    \/ StartupAfterDowntime
    \/ Cycle
    \/ StartedAlert(SendOutcomes)
    \/ UpcomingExpired
    \/ ThresholdAlert(SendOutcomes)
    \/ SaveData

SpecStartup == InitStartup /\ [][NextStartup]_vars

----------------------------------------------------------------------------
(* One threshold sweep over one tracked record, second by second. *)

\* A tracker that holds one record, between 1 and MaxLead seconds ahead.
InitWindow ==
    /\ pc = "sweep"
    /\ \E t \in 1..MaxLead :
          upcoming_listings =
              << Tracked(Listing("OKX", "XYZ", t, "/d", "upcoming"), 0) >>
    /\ snapshot = Absent
    /\ feeds = <<>>
    /\ all_listings = <<>>
    /\ content = <<>>
    /\ started_for = NotKept
    /\ Fresh

\* check_upcoming_listings, lines 139-141: now is taken and the copy of the
\* live set is made.
CheckUpcomingListings ==
    /\ pc = "sweep"
    /\ sweep_now' = clock
    /\ todo' = upcoming_listings
    /\ thr_i' = 1
    /\ pc' = AfterListing(upcoming_listings)
    /\ UNCHANGED <<clock, upcoming_listings, active_alerts, all_listings,
                   current_time, expired_listings, exp_i, rep_i, path,
                   cycle_error, snapshot, last_report_time, departed,
                   gathers, upcoming_sent, ledger_hits, raised_on,
                   undelivered>>
    /\ UNCHANGED aside

NextWindow == CheckUpcomingListings \/ ThresholdAlert(SendOutcomes)

SpecWindow == InitWindow /\ [][NextWindow]_vars

----------------------------------------------------------------------------
(* TelegramNotifier.send_message, telegram_bot.py lines 15-37, and the     *)
(* updates waiting at the Bot API.                                         *)

\* Update.effective_chat of an update that belongs to no chat (an inline
\* query, a poll): Python's None.
NoChat == [id |-> None]

\* An update: a message in a chat, or one that belongs to no chat.
Updates ==
    { [effective_chat |-> [id |-> "chat_a"]],
      [effective_chat |-> [id |-> "chat_b"]],
      [effective_chat |-> NoChat] }

\* What bot.get_updates and bot.send_message can do.
TransportOutcomes == {"ok", "TelegramError", "Exception"}

\* Line 18: `not self.chat_id`.
IsUnset(id) == id = None

\* What send_message returns or raises when the transport call of lines 28-32
\* ends with `outcome`.
AfterTransport(outcome) ==
    CASE outcome = "ok" -> "True"
      [] outcome = "TelegramError" -> "False"
      [] OTHER -> outcome

\* No chat has been started.
InitNotifier ==
    /\ pc = "notify"
    /\ upcoming_listings = <<>>
    /\ snapshot = Absent
    /\ feeds = <<>>
    /\ all_listings = <<>>
    /\ content = <<>>
    /\ started_for = NotKept
    /\ Fresh

\* Somebody sends the bot an update; it waits at the Bot API with the ones
\* before it (get_updates is called without an offset and confirms none).
UpdateArrives(u) ==
    /\ pc = "notify"
    /\ Len(feeds) < MaxUpdates
    /\ feeds' = Append(feeds, u)
    /\ UNCHANGED <<clock, pc, upcoming_listings, active_alerts, all_listings,
                   current_time, expired_listings, exp_i, rep_i, path,
                   sweep_now, todo, thr_i, cycle_error, snapshot,
                   last_report_time, departed, gathers, upcoming_sent,
                   ledger_hits, raised_on, undelivered, results, restored,
                   crashed, report, content, extracted, started_for,
                   chat_id, config_chat_id, sent_to, returned>>

\* One call of send_message: get_updates ends with `fetched`, and the
\* transport call, when it is made, with `outcome`.
SendMessage(fetched, outcome) ==
    /\ pc = "notify"
    /\ IF ~IsUnset(chat_id)
       THEN /\ sent_to' = sent_to \cup {chat_id}
            /\ returned' = AfterTransport(outcome)
            /\ UNCHANGED <<chat_id, config_chat_id>>
       ELSE IF fetched # "ok"
       THEN /\ returned' = AfterTransport(fetched)
            /\ UNCHANGED <<chat_id, config_chat_id, sent_to>>
       ELSE IF feeds = <<>>
       THEN /\ returned' = "False"
            /\ UNCHANGED <<chat_id, config_chat_id, sent_to>>
       ELSE IF feeds[Len(feeds)].effective_chat = NoChat
       THEN /\ returned' = "AttributeError"
            /\ UNCHANGED <<chat_id, config_chat_id, sent_to>>
       ELSE /\ chat_id' = feeds[Len(feeds)].effective_chat.id
            /\ config_chat_id' = chat_id'
            /\ sent_to' = sent_to \cup {chat_id'}
            /\ returned' = AfterTransport(outcome)
    /\ UNCHANGED <<clock, pc, upcoming_listings, active_alerts, all_listings,
                   current_time, expired_listings, exp_i, rep_i, path,
                   sweep_now, todo, thr_i, cycle_error, snapshot,
                   last_report_time, departed, gathers, upcoming_sent,
                   ledger_hits, raised_on, undelivered, feeds, results,
                   restored, crashed, report, content, extracted,
                   started_for>>

AnyUpdateArrives == \E u \in Updates : UpdateArrives(u)

AnySendMessage ==
    \E fetched \in TransportOutcomes, outcome \in TransportOutcomes :
        SendMessage(fetched, outcome)

NextNotifier == AnyUpdateArrives \/ AnySendMessage

SpecNotifier == InitNotifier /\ [][NextNotifier]_vars

----------------------------------------------------------------------------
(* Properties. *)

\* The record of a tracked listing without its history fields.
Plain(l) ==
    Listing(l.exchange, l.symbol, l.listing_time, l.announcement_url, l.status)

\* Two records of one identity key (exchange, symbol).
SameIdentity(a, b) == a.exchange = b.exchange /\ a.symbol = b.symbol

\* The records that left the live set in the running cycle.
Gone == Range(expired_listings) \cup departed

\* C1: in every reachable state the live set holds at most one record per
\* identity key (exchange, symbol), also after a cycle whose gather returned
\* two candidates of one untracked identity.
C1_OnePerIdentity ==
    \A i, j \in 1..Len(upcoming_listings) :
        SameIdentity(upcoming_listings[i], upcoming_listings[j]) => i = j

\* C2: a cycle leaves the tracked records as they were: the records that have
\* not expired stay at the head of the live set, in order and field by field,
\* and nothing is admitted under an identity that was tracked before the
\* cycle, whatever listing_time the candidate carries.  Every other step only
\* takes records out of the live set.
C2_FirstSeenWins ==
    [][ IF pc = "check"
        THEN LET kept == SelectSeq(upcoming_listings,
                                   LAMBDA l : l.listing_time > clock')
                 n == Len(kept)
             IN /\ Len(upcoming_listings') >= n
                /\ SubSeq(upcoming_listings', 1, n) = kept
                /\ \A j \in (n + 1)..Len(upcoming_listings') :
                     \A i \in 1..Len(upcoming_listings) :
                        ~SameIdentity(upcoming_listings'[j],
                                      upcoming_listings[i])
        ELSE { Plain(l) : l \in Range(upcoming_listings') }
                \subseteq { Plain(l) : l \in Range(upcoming_listings) }
      ]_vars

\* C2 happens: a cycle has just gathered an admissible candidate whose
\* identity is tracked with another listing_time, and the live set holds no
\* record equal to it.
C2_Witness ==
    /\ pc \in {"started", "upcoming", "save"}
    /\ \E c \in Range(all_listings) :
          /\ IsAdmissible(c, current_time)
          /\ \E l \in Range(upcoming_listings) :
                SameIdentity(l, c) /\ l.listing_time # c.listing_time
          /\ \A l \in Range(upcoming_listings) : ~ListingEq(l, c)

\* C3: a record enters the live set only in the admission of a cycle, and only
\* with status 'upcoming' and a listing_time strictly ahead of the time of
\* admission.
C3_AdmitsOnlyFutureUpcoming ==
    [][ \A l \in Range(upcoming_listings') :
          Plain(l) \notin { Plain(k) : k \in Range(upcoming_listings) }
             => /\ pc = "check"
                /\ l.status = "upcoming"
                /\ l.listing_time > clock'
      ]_vars

\* C3 happens: a cycle has just gathered an 'active' candidate and an
\* 'upcoming' candidate whose time is not ahead, nothing was tracked under
\* their identities, and the live set is empty.
C3_Witness ==
    /\ pc \in {"started", "upcoming", "save"}
    /\ upcoming_listings = <<>>
    /\ expired_listings = <<>>
    /\ \E c \in Range(all_listings) : c.status = "active"
    /\ \E c \in Range(all_listings) :
          c.status = "upcoming" /\ c.listing_time <= current_time

\* C4: when a cycle has run to completion, every record left in the live set
\* has its listing_time after the sweep time of the cycle (the expiry sweep's
\* and that of check_upcoming_listings), and every record the cycle took out
\* got its 'started' alerts.
C4_NoStartedRecordLeft ==
    (pc = "report" /\ ~cycle_error) =>
        /\ \A l \in Range(upcoming_listings) :
              l.listing_time > sweep_now /\ l.listing_time > current_time
        /\ \A l \in Gone :
              l.listing_time <= sweep_now /\ l.sent >= LISTING_ALERT_COUNT

\* C4 happens: a completed cycle whose expiry sweep took out a record that
\* started one second before it, and whose check_upcoming_listings took out
\* another.
C4_Witness ==
    /\ pc = "report"
    /\ ~cycle_error
    /\ \E l \in Range(expired_listings) : l.listing_time = current_time - 1
    /\ departed # {}

\* C5: for every record that expires, exactly LISTING_ALERT_COUNT 'started'
\* alerts are sent in total: never more for one record, and not fewer once the
\* cycle that took it out is over.
C5_ExactlyThreeStarted ==
    /\ \A l \in Range(upcoming_listings) \cup Gone :
          l.sent <= LISTING_ALERT_COUNT
    /\ pc = "report" => \A l \in Gone : l.sent = LISTING_ALERT_COUNT

\* C6: for every identity and threshold the 'upcoming' alert is sent at most
\* once in a run.
C6_ThresholdAtMostOnce ==
    \A k \in Keys : upcoming_sent[k] <= 1

\* C6 happens: check_upcoming_listings has just found a tracked listing inside
\* the window of a threshold whose alert an earlier cycle sent, and sent
\* nothing.
C6_Witness ==
    /\ pc = "save"
    /\ ~cycle_error
    /\ \E k \in ledger_hits :
          /\ upcoming_sent[k] = 1
          /\ \E l \in Range(upcoming_listings) :
                /\ k = AlertKey(l, k[3])
                /\ InWindow(TimeUntil(l, sweep_now), k[3])

\* C7: a listing admitted more than threshold + 60 seconds ahead has got the
\* 'upcoming' alert of that threshold exactly once by the time a sweep finds
\* it past the window of the threshold, or takes it out as started.
C7_EveryOwedThresholdFires ==
    /\ pc = "save" =>
          \A l \in Range(upcoming_listings) : \A T \in l.owed :
              TimeUntil(l, sweep_now) <= T - ALERT_TOLERANCE
                 => upcoming_sent[AlertKey(l, T)] = 1
    /\ \A l \in Gone : \A T \in l.owed : upcoming_sent[AlertKey(l, T)] = 1

\* C8: an 'upcoming' alert for threshold T is attempted only for a tracked
\* record with seconds_left > 0 and |seconds_left - T| < 60 at the sweep and
\* whose ledger entry was not set, and after the attempt the entry is set.
C8_AttemptSetsLedger ==
    [][ \A k \in Keys :
          (\/ upcoming_sent'[k] # upcoming_sent[k]
           \/ \E x \in raised_on' \ raised_on :
                 x[1] = "upcoming" /\ AlertKey(x[2], x[3]) = k)
             => /\ pc = "upcoming"
                /\ todo # <<>>
                /\ LET l == Head(todo)
                       T == k[3]
                   IN /\ k = AlertKey(l, T)
                      /\ \E m \in Range(upcoming_listings) : ListingEq(m, l)
                      /\ TimeUntil(l, sweep_now) > 0
                      /\ InWindow(TimeUntil(l, sweep_now), T)
                      /\ k \notin active_alerts
                      /\ k \in active_alerts'
      ]_vars

\* C9: once the cycle that took a record out of the live set is over, its
\* LISTING_ALERT_COUNT 'started' alerts have been sent.
C9_GoneOnlyAfterAlerts ==
    pc = "report" => \A l \in Gone : l.sent >= LISTING_ALERT_COUNT

\* C10: an exception raised by the alert of one record leaves no record of the
\* same sweep unprocessed in that cycle: after it the expired records behind
\* the raising one have their alerts, and the copy check_upcoming_listings
\* iterates holds nothing behind the raising one.
C10_SweepGoesOn ==
    (pc = "report" /\ cycle_error) =>
        IF path = "sweep"
        THEN \A i \in (exp_i + 1)..Len(expired_listings) :
                 expired_listings[i].sent >= LISTING_ALERT_COUNT
        ELSE Tail(todo) = <<>>

\* C11: a threshold alert whose delivery fails (send_message returns False)
\* is final: its ledger entry is set and it stays the only attempt for its
\* key, as for every alert whose send returned; and the failure does not end
\* the cycle, which goes on through the rest of the sweep.
C11_FailedDeliveryIsFinal ==
    /\ \A k \in Keys :
          upcoming_sent[k] >= 1 => k \in active_alerts /\ upcoming_sent[k] = 1
    /\ \A k \in undelivered : k \in active_alerts /\ upcoming_sent[k] = 1
    /\ raised_on = {} => ~cycle_error
    /\ (pc \in {"save", "report"} /\ ~cycle_error) => todo = <<>>

\* C11 happens: check_upcoming_listings is over in a cycle where the alert of
\* one tracked listing was not delivered and another listing came behind it
\* in the sweep.
C11_Witness ==
    /\ pc = "save"
    /\ ~cycle_error
    /\ \E i, j \in 1..Len(upcoming_listings) :
          /\ i < j
          /\ ~ListingEq(upcoming_listings[i], upcoming_listings[j])
          /\ \E k \in undelivered :
                k = AlertKey(upcoming_listings[i], k[3])

\* C12: whatever adapter tasks ended with an exception, get_all_listings
\* returns the records of every task that returned a list: each such list
\* stands in the gathered sequence whole and in order, and the sequence holds
\* nothing else.
C12_FailuresStayApart ==
    pc = "gathered" =>
        LET done == { i \in 1..Len(results) : results[i].kind = "list" }
            before(i) == { j \in done : j < i }
            size(S) == Cardinality(UNION { { <<j, n>> :
                           n \in 1..Len(results[j].listings) } : j \in S })
        IN /\ Len(all_listings) = size(done)
           /\ \A i \in done :
                 SubSeq(all_listings, size(before(i)) + 1,
                        size(before(i)) + Len(results[i].listings))
                    = results[i].listings

\* C12 happens: a gather is over in which one task ended with an exception
\* and a later task returned listings.
C12_Witness ==
    /\ pc = "gathered"
    /\ \E i, j \in 1..Len(results) :
          /\ i < j
          /\ results[i].kind # "list"
          /\ results[j].kind = "list"
          /\ results[j].listings # <<>>

\* C13: an adapter that met a network or parse exception, at any point of its
\* fetch, hands the aggregator an empty list.
C13_FaultYieldsEmpty ==
    pc \in {"collect", "gathered"} =>
        \A i \in 1..Len(feeds) :
            feeds[i].fault = "Exception" => results[i] = Returned(<<>>)

\* C14: the sequence get_all_listings hands to the tracker holds no two
\* records of one (exchange, symbol, listing_time), holds every triple some
\* adapter returned, and keeps first-seen order.
C14_GatherDeduplicates ==
    pc = "gathered" =>
        LET Triple(l) == <<l.exchange, l.symbol, l.listing_time>>
            all == Collected(results)
            first(q, i) == \A j \in 1..(i - 1) : Triple(q[j]) # Triple(q[i])
            firsts == SelectSeq([i \in 1..Len(all) |-> <<all[i], first(all, i)>>],
                                LAMBDA x : x[2])
        IN /\ \A i, j \in 1..Len(all_listings) :
                 Triple(all_listings[i]) = Triple(all_listings[j]) => i = j
           /\ all_listings = [i \in 1..Len(firsts) |-> firsts[i][1]]

\* C15: after every polling cycle, one that ended in an exception included,
\* the snapshot is a whole document whose records are the live set as the
\* cycle left it, and nothing else.
C15_SnapshotFollowsLiveSet ==
    pc \in {"report", "sleep"} =>
        snapshot = Document(Serialize(upcoming_listings))

C17_CorruptFileLoadsNothing ==
    (/\ pc = "loaded"
     /\ \/ ~snapshot.exists
        \/ ~snapshot.complete
        \/ \E i \in 1..Len(snapshot.entries) : ~IsLoadable(snapshot.entries[i]))
        => restored = <<>>

\* C18: while save_data writes, and after it, with or without a crash, the
\* file is absent or a whole document, and after a save that ended it is the
\* document of the live set.
C18_SnapshotIsWhole ==
    /\ pc \in {"save", "dump", "saved", "crashed", "reloaded", "recovered"}
          => (~snapshot.exists \/ snapshot.complete)
    /\ pc \in {"saved", "reloaded"}
          => snapshot = Document(Serialize(upcoming_listings))

\* C19: an exception raised in a cycle never ends the loop: the step that
\* raises leaves run at line 194, as after any cycle, from where the report
\* check and the poll sleep lead to the next cycle; the loop ends only by a
\* KeyboardInterrupt.
C19_LoopSurvivesExceptions ==
    [][ /\ raised_on' \ raised_on # {} => pc' = "report" /\ cycle_error'
        /\ (cycle_error /\ pc = "report") => pc' = "sleep"
        /\ (cycle_error /\ pc = "sleep") => pc' \in {"check", "stopped"}
        /\ (pc' = "stopped" /\ pc # "stopped")
              => (pc = "sleep" /\ upcoming_listings' = upcoming_listings)
      ]_vars

\* C19 happens: after a cycle in which an alert raised, the loop is back at
\* the call of check_listings.
C19_Witness ==
    /\ pc = "check"
    /\ cycle_error
    /\ raised_on # {}

\* C20: after a cycle that failed with an exception the loop waits the
\* cooldown of 60 seconds before the next cycle.
C20_CooldownAfterFailure ==
    [][ (cycle_error /\ pc = "sleep" /\ pc' = "check")
           => clock' = clock + COOLDOWN_SLEEP
      ]_vars

\* C21: after a crash in the middle of the 'started' sequence of a record and
\* a restart, no 'started' alert is sent for that record any more: no record
\* equal to it is in the tracker's hands with an alert emitted since the
\* restart.
C21_NoAlertAfterRestart ==
    \A l \in Range(upcoming_listings) \cup Gone :
        (\E c \in crashed : Plain(c) = Plain(l)) => l.sent = 0

\* A step in which a cycle begins: check_listings takes its clock value
\* (line 106) or a gather returns candidates.
BeginsCycle ==
    \/ current_time' # current_time /\ current_time' # 0
    \/ gathers' # gathers

\* C22: polling cycles never overlap.  A cycle begins only at the top of the
\* loop with nothing of the cycle before it left in progress; a cycle in
\* progress is followed by its own steps until check_listings returns; the
\* regular report is made only after check_listings has returned; the live
\* set and the ledger change only in the steps of the one running cycle.
C22_CyclesDoNotOverlap ==
    [][ /\ BeginsCycle =>
              (pc = "check" /\ expired_listings = <<>> /\ todo = <<>>)
        /\ InCycle(pc) => pc' \in {"started", "upcoming", "save", "report"}
        /\ last_report_time' # last_report_time => pc = "report"
        /\ (upcoming_listings' # upcoming_listings
               \/ active_alerts' # active_alerts)
              => (pc = "check" \/ InCycle(pc))
      ]_vars

\* A cycle that lasted longer than the poll sleep and the report period
\* together has returned, the report is due, and no other cycle has begun.
C22_Witness ==
    /\ pc = "report"
    /\ clock - current_time >= 2 * LISTING_ALERT_INTERVAL
    /\ clock - last_report_time >= CHECK_INTERVAL
    /\ ~cycle_error

\* C23: barrier join.  Once get_all_listings is past its gather, and whenever
\* the live set holds a record, every adapter task has run to its end: its
\* result is the list it returned or the exception that ended it.  The live
\* set changes only in the admission step, and then holds what all the tasks
\* returned.
C23_BarrierJoin ==
    /\ (pc \in {"collect", "gathered", "admitted"} \/ upcoming_listings # <<>>)
          => /\ Len(results) = Len(feeds)
             /\ \A i \in 1..Len(feeds) : results[i] = Fetch(feeds[i])
    /\ upcoming_listings # <<>> => pc = "admitted"
    /\ pc = "admitted" =>
          [i \in 1..Len(upcoming_listings) |-> Plain(upcoming_listings[i])]
             = Collected([i \in 1..Len(feeds) |-> Fetch(feeds[i])])

\* C23 happens: records were admitted after a gather in which one task met a
\* fault and another returned a listing.
C23_Witness ==
    /\ pc = "admitted"
    /\ upcoming_listings # <<>>
    /\ \E i, j \in 1..Len(feeds) :
          /\ feeds[i].fault # "none"
          /\ feeds[j].fault = "none"
          /\ feeds[j].items # <<>>

CountAt(q, t) == Cardinality({ i \in 1..Len(q) : q[i].listing_time = t })

\* C25: the regular report holds at most REPORT_SIZE records, each a record
\* of the live set with listing_time > now, in ascending order of
\* listing_time; it holds all such records when they are no more than
\* REPORT_SIZE, and no tracked future record left out is sooner than one in
\* the report.
C25_ReportIsSoonestFive ==
    pc = "reported" =>
        LET ahead == Ahead(upcoming_listings, clock)
        IN /\ Len(report) <= REPORT_SIZE
           /\ Len(report) =
                 (IF Len(ahead) < REPORT_SIZE THEN Len(ahead) ELSE REPORT_SIZE)
           /\ \A i \in 1..Len(report) :
                 /\ report[i].listing_time > clock
                 /\ report[i] \in Range(upcoming_listings)
           /\ \A i, j \in 1..Len(report) :
                 i < j => report[i].listing_time <= report[j].listing_time
           /\ \A t \in ReportTimes :
                 /\ CountAt(report, t) <= CountAt(ahead, t)
                 /\ CountAt(report, t) < CountAt(ahead, t) =>
                       \A i \in 1..Len(report) : report[i].listing_time <= t

\* C25 happens: a report was cut to REPORT_SIZE records from a live set that
\* was not in order of time and held a record that has started.
C25_Witness ==
    /\ pc = "reported"
    /\ Len(report) = REPORT_SIZE
    /\ Len(Ahead(upcoming_listings, clock)) > REPORT_SIZE
    /\ Ahead(upcoming_listings, clock)
          # SortedByTime(Ahead(upcoming_listings, clock))
    /\ \E i \in 1..Len(upcoming_listings) :
          upcoming_listings[i].listing_time <= clock
    /\ report[1].listing_time < report[REPORT_SIZE].listing_time

\* C26: a ledger entry lives as long as its record: between two cycles every
\* key (exchange, symbol, threshold) of the ledger belongs to a record that
\* is in the live set.
C26_LedgerLivesWithRecord ==
    pc \in {"report", "sleep", "check"} =>
        \A key \in active_alerts :
            \E i \in 1..Len(upcoming_listings) :
                /\ upcoming_listings[i].exchange = key[1]
                /\ upcoming_listings[i].symbol = key[2]

\* C27: symbol extraction never returns a stoplisted token, and no record an
\* adapter produced, gathered or admitted, carries a stoplisted symbol.
C27_NoStoplistedSymbol ==
    /\ extracted \notin Stoplist
    /\ \A i \in 1..Len(all_listings) : all_listings[i].symbol \notin Stoplist
    /\ \A i \in 1..Len(upcoming_listings) :
          upcoming_listings[i].symbol \notin Stoplist

\* An explicit 'YYYY-MM-DD HH:MM' timestamp with its UTC/GMT marker that is
\* a date.
IsExplicit(p) == p.kind = "absolute" /\ p.pattern = 1 /\ p.parses

\* C28 as stated: for a text that holds an explicit timestamp with a UTC/GMT
\* marker the extractor returns that timestamp, whatever else the text holds
\* and whether the timestamp is before or after now.
C28_ExplicitTimestampReturned ==
    pc = "timed" =>
        ((\E i \in 1..Len(content) : IsExplicit(content[i]))
            => /\ extracted.found
               /\ \E i \in 1..Len(content) :
                     IsExplicit(content[i]) /\ extracted.at = content[i].n)

\* C28 amended: the extractor returns the first explicit timestamp of the
\* text, in text order, that lies strictly after now, whatever else the text
\* holds; an explicit timestamp at or before now is never returned.
C28_FirstFutureTimestampReturned ==
    pc = "timed" =>
        \A i \in 1..Len(content) :
            IsExplicit(content[i]) =>
                IF content[i].n > clock
                THEN (\A j \in 1..(i - 1) :
                         ~(IsExplicit(content[j]) /\ content[j].n > clock))
                        => extracted = At(content[i].n)
                ELSE extracted # At(content[i].n)

\* C28 happens: an explicit timestamp in the past stands before one that is
\* ahead, next to a relative expression, and the one ahead is returned.
C28_Witness ==
    /\ pc = "timed"
    /\ \E i, j, r \in 1..Len(content) :
          /\ i < j
          /\ IsExplicit(content[i]) /\ content[i].n <= clock
          /\ IsExplicit(content[j]) /\ content[j].n > clock
          /\ content[r].kind = "relative"
          /\ extracted = At(content[j].n)

\* The text holds one time expression and it is 'in N hours'.
OnlyInHours(text, i) ==
    /\ text[i].kind = "relative" /\ text[i].pattern = 1
    /\ \A j \in 1..Len(text) : j # i => text[j].kind = "words"

\* C29 as stated: for a text whose only time expression is 'in N hours' the
\* extractor returns now + N hours, for every N >= 0.
C29_InHoursReturned ==
    pc = "timed" =>
        \A i \in 1..Len(content) :
            OnlyInHours(content, i) => extracted = At(clock + content[i].n)

\* C29 amended: it returns now + N hours for every N >= 0 for which
\* now + N hours is a datetime (not past the year 9999), and None for the
\* larger N.
C29_InHoursWithinRange ==
    pc = "timed" =>
        \A i \in 1..Len(content) :
            OnlyInHours(content, i) =>
                IF clock + content[i].n <= HOURS_TO_MAX
                THEN extracted = At(clock + content[i].n)
                ELSE extracted = NoTime

\* C29 happens: 'in 2 hours' among other words gave now + 2 hours.
C29_Witness ==
    /\ pc = "timed"
    /\ Len(content) > 1
    /\ \E i \in 1..Len(content) :
          /\ OnlyInHours(content, i)
          /\ content[i].n = 2
          /\ extracted = At(clock + 2)

Emitted ==
    IF pc \in {"gathered", "api_gathered", "admitted"}
    THEN Range(all_listings) ELSE {}

\* The grace window of the adapter that emitted them.
GraceWindow == IF pc = "api_gathered" THEN API_WINDOW ELSE RECENT_WINDOW

\* C31: a structured adapter derives status from the comparison of
\* listing_time with now: every candidate it emits with a listing_time ahead
\* of now has status 'upcoming' and is admissible, and a candidate has status
\* 'active' only when its listing_time is not ahead and lies within the grace
\* window.
C31_StatusFromComparison ==
    \A c \in Emitted :
        /\ c.listing_time > clock =>
              (c.status = "upcoming" /\ IsAdmissible(c, clock))
        /\ c.status = "active" =>
              (c.listing_time <= clock /\ clock - c.listing_time < GraceWindow)

\* C32: for an identity (exchange, symbol) the 'started' alerts are emitted at
\* most once over a run: no 'started' alert is emitted for a record that was
\* admitted after a 'started' alert had been emitted for its identity.
C32_StartedOncePerIdentity ==
    \A l \in Range(upcoming_listings) \cup Gone :
        Plain(l) \in started_for.readmitted => l.sent = 0

\* The live set holds a record equal to candidate c.
IsTracked(c) == \E l \in Range(upcoming_listings) : Plain(l) = c

\* A record equal to candidate c has left the live set in the running cycle
\* with all its 'started' alerts emitted.
LeftAlerted(c) ==
    /\ ~IsTracked(c)
    /\ \E l \in Gone : Plain(l) = c /\ l.sent >= LISTING_ALERT_COUNT

StillAhead(live, t) == SelectSeq(live, LAMBDA l : l.listing_time > t)

\* C34: a record leaves the live set only by expiry.  In every step the
\* tracked records whose listing_time is ahead of the sweep time of the step
\* (current_time of line 106 in the gather step, now of line 139 in the
\* steps of check_upcoming_listings) stay in the live set, in order and field
\* by field; admission only adds records behind them, and the threshold
\* sweep, an alert that fails or raises, the save, the report and the sleep
\* leave them as they are.
C34_OnlyExpiryRemoves ==
    [][ LET t == IF pc = "check" THEN current_time' ELSE sweep_now
            before == StillAhead(upcoming_listings, t)
            after == StillAhead(upcoming_listings', t)
        IN /\ Len(after) >= Len(before)
           /\ SubSeq(after, 1, Len(before)) = before
           /\ pc # "check" => after = before
           /\ pc \in {"save", "report", "sleep"} =>
                  upcoming_listings' = upcoming_listings
      ]_vars

\* C34 happens: a cycle has ended in which a record expired and left, an
\* alert failed or raised, and a record whose time is still ahead, tracked
\* long enough to have had an 'upcoming' alert, is in the live set.
C34_Witness ==
    /\ pc = "report"
    /\ Gone # {}
    /\ undelivered # {} \/ raised_on # {}
    /\ \E l \in Range(upcoming_listings) :
          /\ l.listing_time > clock
          /\ \E i \in 1..Len(alert_times) :
                upcoming_sent[AlertKey(l, alert_times[i])] > 0

\* The restored records whose listing_time passed while the process was
\* down; last_report_time is the time of the startup (line 186).
PassedWhileDown ==
    { r \in Range(restored) : r.listing_time <= last_report_time }

\* C35: at the return of the first check_listings after a startup, every
\* record restored from the file whose listing_time passed while the process
\* was down is out of the live set and has had its LISTING_ALERT_COUNT
\* 'started' alerts.
C35_RestoredExpiredAlerted ==
    pc = "report" =>
        \A r \in PassedWhileDown :
            /\ ~IsTracked(r)
            /\ \E l \in Gone : Plain(l) = r /\ l.sent >= LISTING_ALERT_COUNT

\* The thresholds whose window holds a time left.
Matching(time_until_listing) ==
    { i \in 1..Len(alert_times) :
        InWindow(time_until_listing, alert_times[i]) }

\* The 'upcoming' alerts emitted for a record, over all thresholds.
UpcomingAlerts(l) ==
    LET RECURSIVE Sum(_)
        Sum(i) == IF i = 0 THEN 0
                  ELSE upcoming_sent[AlertKey(l, alert_times[i])] + Sum(i - 1)
    IN Sum(Len(alert_times))

\* C36: in one threshold sweep a tracked record triggers at most one
\* 'upcoming' alert: its time left is in the window of at most one threshold,
\* and at most one alert is emitted for it.
C36_OneAlertPerSweep ==
    \A l \in Range(upcoming_listings) :
        /\ Cardinality(Matching(TimeUntil(l, clock))) <= 1
        /\ UpcomingAlerts(l) <= 1

\* C36 happens: the sweep is over for a record one second inside the upper
\* edge of the 1800 window, and one alert, for that threshold, was emitted.
C36_Witness ==
    /\ pc = "save"
    /\ \E l \in Range(upcoming_listings) :
          /\ TimeUntil(l, sweep_now) = alert_times[2] + ALERT_TOLERANCE - 1
          /\ upcoming_sent[AlertKey(l, alert_times[2])] = 1
          /\ UpcomingAlerts(l) = 1

\* C37: all notifications go to one chat.  The transport is never called with
\* an unset chat id, and never with two different ones; a chat id that is
\* set stays as it is; a call of send_message that leaves the chat id unset
\* calls no transport and returns False, unless get_updates itself raised
\* what is no TelegramError.
C37_SingleDestination ==
    [][ /\ None \notin sent_to'
        /\ Cardinality(sent_to') <= 1
        /\ ~IsUnset(chat_id) => chat_id' = chat_id
        /\ (feeds' = feeds /\ IsUnset(chat_id'))
              => (sent_to' = sent_to /\ returned' \in {"False", "Exception"})
      ]_vars

\* C38: a regular report is made only right after a polling cycle and only
\* when at least CHECK_INTERVAL seconds have passed since the report before
\* it, or since startup; the step that makes it, whether the send succeeds or
\* fails, leaves the live set, the ledger and the file as they are.
C38_ReportEveryInterval ==
    [][ /\ last_report_time' # last_report_time =>
              /\ pc = "report"
              /\ clock - last_report_time >= CHECK_INTERVAL
              /\ last_report_time' = clock
        /\ pc = "report" =>
              /\ upcoming_listings' = upcoming_listings
              /\ active_alerts' = active_alerts
              /\ snapshot' = snapshot
      ]_vars

\* C38 happens: a report has just been made that is not the first of the
\* run, by a tracker with a record in its live set and an entry in its
\* ledger.
C38_Witness ==
    /\ pc = "sleep"
    /\ last_report_time = clock
    /\ clock >= 2 * CHECK_INTERVAL
    /\ upcoming_listings # <<>>
    /\ active_alerts # {}

====
